---- MODULE Spec2Model ----
(***************************************************************************)
(* Road Safety Violation Detector (gunasai12/Capstone-I, website package). *)
(*                                                                         *)
(* Three parts of the program are modelled, each with its own next-state   *)
(* relation over the shared variables:                                     *)
(*   - the per-frame violation classifier (detect.py, spatial_logic.py),   *)
(*   - the fine policy and the paths that persist a violation record       *)
(*     (rules.py, worker.py, seed_demo_data.py, app.py),                   *)
(*   - the video timeline aggregator (video_processor.py).                 *)
(*                                                                         *)
(* Conventions.  A box is <<x1, y1, x2, y2>>.  Confidences are hundredths  *)
(* (0.90 is 90).  A float that the code computes by a division is kept as  *)
(* the exact fraction [num, den].  A box centre is kept in half pixels.    *)
(***************************************************************************)
EXTENDS Integers, Sequences, FiniteSets, TLC

(***************************************************************************)
(* Bounds of the model.                                                    *)
(***************************************************************************)
MaxBoxes == 5
MaxRecords == 3
MaxFrames == 6
MaxFrameSkip == 3
MaxFpsNum == 6

(***************************************************************************)
(* Program constants.                                                      *)
(***************************************************************************)
TRIPLE_RIDING_CONFIDENCE == 90
HELMET_VIOLATION_CONFIDENCE == 85
FALLBACK_CONFIDENCE == 65
TRIPLE_RIDING_MIN_RIDERS == 3
FALLBACK_MAX_VIOLATIONS == 2
FIRST_OFFENSE_FINE == 500
REPEAT_OFFENSE_FINE == 1000
HELMET_FLAT_FINE == 500
TRIPLE_FLAT_FINE == 1000

CLASS_PERSON == "person"
CLASS_BIKE == "motorbike"
CLASS_HELMET == "helmet"
CLASS_PLATE == "license_plate"

ModelTypes == {"custom_indonesian", "yolov8m", "yolov8n", "none"}

VARIABLES
    model_type,         \* ViolationDetector.model_type, set by load_model
    det_pc,             \* position in detect_violations: "running" | "done"
    bboxes,             \* bboxes: class name -> list of boxes
    raw_bikes,          \* vehicle-class boxes of results.boxes, in result order
    direct_violations,  \* direct_violations list of the custom model
    violations          \* the violation list returned for the frame

det_vars == <<model_type, det_pc, bboxes, raw_bikes, direct_violations, violations>>

VARIABLES
    db_violations,      \* rows of the violations table, in insertion order
    w_pc,               \* per worker: position in process_violation
    w_vehicle_no,       \* per worker: vehicle_no read from the plate
    w_violation_type,   \* per worker: detection['type']
    w_fine_amount,      \* per worker: fine_amount returned by compute_fine
    seed_idx,           \* seed_demo_violations: entries of demo_violations done
    seed_pc,            \* seed_demo_violations: "compute" | "insert"
    seed_fine_amount    \* seed_demo_violations: fine_amount of the current entry

fine_vars == <<db_violations, w_pc, w_vehicle_no, w_violation_type, w_fine_amount,
               seed_idx, seed_pc, seed_fine_amount>>

VARIABLES
    vid_pc,               \* process_video: "closed" | "reading" | "done" | "failed"
    cap_fps,              \* cap.get(CAP_PROP_FPS), the fraction the source reports
    cap_frames,           \* frames decoded so far: the violation list of each
    fps,                  \* fps = int(cap.get(CAP_PROP_FPS))
    frame_skip,           \* VideoProcessor.frame_skip
    frame_idx,
    violations_timeline,
    frames_processed,
    total_violations,
    video_exists,         \* os.path.exists(video_path)
    cap_opened,           \* cap.isOpened()
    cap_exhausted,        \* the read that returned no frame was the end of the source
    vid_error,            \* exception raised by process_video, "none" if none
    summary,              \* the summary process_video returns, None before
    demo_result           \* the result process_demo_video returns, None before

vid_vars == <<vid_pc, cap_fps, cap_frames, fps, frame_skip, frame_idx,
              violations_timeline, frames_processed, total_violations,
              video_exists, cap_opened, cap_exhausted, vid_error, summary, demo_result>>

VARIABLES
    est_pc,               \* "idle" | "done"
    est_timeline,         \* the violations_timeline whose fines are estimated
    web_total_fine,       \* total_fine of process_demo_video
    pdf_total_fine        \* total_fine of generate_enhanced_pdf

est_vars == <<est_pc, est_timeline, web_total_fine, pdf_total_fine>>

VARIABLES
    geo_op,               \* the spatial_logic function applied, "none" before
    geo_args,             \* its arguments
    geo_result            \* its return value

geo_vars == <<geo_op, geo_args, geo_result>>

VARIABLES
    ai_pc,                \* ai_detector.detect_violations: "idle" | "done"
    ai_violations,        \* the violation list the detector returned for the image
    ai_result             \* the result dict detect_violations returns, None before

ai_vars == <<ai_pc, ai_violations, ai_result>>

VARIABLES
    ocr_op,               \* PaddleOCRReader method applied, "none" before
    ocr_text,             \* the text handed to _normalize_plate_text
    ocr_candidates,       \* the candidates the OCR engine returned for the crop
    ocr_result,           \* plate_text returned
    ocr_conf              \* confidence returned with it, in hundredths

ocr_vars == <<ocr_op, ocr_text, ocr_candidates, ocr_result, ocr_conf>>

VARIABLES
    now,                  \* datetime.now(), in seconds since the scraper was created
    ticks,                \* number of times the clock was advanced
    cache,                \* TelanganaPoliceScraper.cache: key -> entry, None if absent
    calls,                \* number of lookups made
    call_key,             \* cache key of the last lookup, None before
    call_age,             \* age of the key's entry when the last lookup began, None if absent
    call_ret              \* data the last lookup returned, None before

cache_vars == <<now, ticks, cache, calls, call_key, call_age, call_ret>>

VARIABLES
    pay_rows,             \* violations table, the columns confirm_qr_payment uses: id -> row
    pay_req,              \* per request: position in confirm_qr_payment and its locals
    pay_count             \* number of confirm_qr_payment requests begun

pay_vars == <<pay_rows, pay_req, pay_count>>

VARIABLES
    wk_pc,                \* ViolationWorker.process_video: "closed" | "reading" | "done"
    wk_frame_skip,        \* FRAME_SKIP of configs.config
    wk_frames,            \* frames read so far: the detector's violation list and the
                          \* plate the reader gives for each of its violations
    wk_handed,            \* the detection arguments of the process_violation calls, in order
    wk_violations_found   \* violations_found, the list process_video returns

wk_vars == <<wk_pc, wk_frame_skip, wk_frames, wk_handed, wk_violations_found>>

VARIABLES
    web_count,            \* number of images uploaded to demo_detection
    web_plate_text,       \* plate_info['text'] of the last image, "" before
    web_result            \* detection_result of process_demo_image, None before

web_vars == <<web_count, web_plate_text, web_result>>

VARIABLES
    run_input,            \* the video given to both runs, None before
    run_outputs,          \* what the runs made so far returned, in run order
    run_clock             \* wall-clock time

run_vars == <<run_input, run_outputs, run_clock>>

vars == <<det_vars, fine_vars, vid_vars, est_vars, geo_vars, ai_vars, ocr_vars, cache_vars, pay_vars, wk_vars, web_vars, run_vars>>

other_than_det == <<fine_vars, vid_vars, est_vars, geo_vars, ai_vars, ocr_vars, cache_vars, pay_vars, wk_vars, web_vars, run_vars>>
other_than_fine == <<det_vars, vid_vars, est_vars, geo_vars, ai_vars, ocr_vars, cache_vars, pay_vars, wk_vars, web_vars, run_vars>>
other_than_vid == <<det_vars, fine_vars, est_vars, geo_vars, ai_vars, ocr_vars, cache_vars, pay_vars, wk_vars, web_vars, run_vars>>
other_than_est == <<det_vars, fine_vars, vid_vars, geo_vars, ai_vars, ocr_vars, cache_vars, pay_vars, wk_vars, web_vars, run_vars>>
other_than_geo == <<det_vars, fine_vars, vid_vars, est_vars, ai_vars, ocr_vars, cache_vars, pay_vars, wk_vars, web_vars, run_vars>>
other_than_ai == <<det_vars, fine_vars, vid_vars, est_vars, geo_vars, ocr_vars, cache_vars, pay_vars, wk_vars, web_vars, run_vars>>
other_than_ocr == <<det_vars, fine_vars, vid_vars, est_vars, geo_vars, ai_vars, cache_vars, pay_vars, wk_vars, web_vars, run_vars>>
other_than_cache == <<det_vars, fine_vars, vid_vars, est_vars, geo_vars, ai_vars, ocr_vars, pay_vars, wk_vars, web_vars, run_vars>>
other_than_pay == <<det_vars, fine_vars, vid_vars, est_vars, geo_vars, ai_vars, ocr_vars, cache_vars, wk_vars, web_vars, run_vars>>
other_than_wk == <<det_vars, fine_vars, vid_vars, est_vars, geo_vars, ai_vars, ocr_vars, cache_vars, pay_vars, web_vars, run_vars>>
other_than_web == <<det_vars, fine_vars, vid_vars, est_vars, geo_vars, ai_vars, ocr_vars, cache_vars, pay_vars, wk_vars, run_vars>>
other_than_run == <<det_vars, fine_vars, vid_vars, est_vars, geo_vars, ai_vars, ocr_vars, cache_vars, pay_vars, wk_vars, web_vars>>

(***************************************************************************)
(* Detector output used as input of the classifier.                        *)
(***************************************************************************)
BoxA == <<0, 0, 10, 10>>
BoxC == <<20, 0, 30, 10>>
BoxD == <<0, 0, 4, 2>>

Det(c, b, p) == [cls_name |-> c, bbox |-> b, conf |-> p]

Detections ==
    {Det(c, b, 80) : c \in {"person", "pengendara"}, b \in {BoxA, BoxC, BoxD}}
    \cup {Det("motorbike", b, 80) : b \in {BoxA, BoxD}}
    \cup {Det(c, b, 80) : c \in {"helmet", "helm"}, b \in {BoxA, BoxC}}
    \cup {Det(c, BoxC, 80) : c \in {"license_plate", "platnomor"}}
    \cup {Det("tanpahelm", BoxA, 30), Det("tanpahelm", BoxD, 95), Det("tanpahelm", BoxD, 30)}

VehicleClassNames == {"motorbike", "motorcycle", "bike"}

(***************************************************************************)
(* spatial_logic.py                                                        *)
(***************************************************************************)
\* int(): truncation of the fraction n/d (d > 0) toward zero
IntTrunc(n, d) == IF n >= 0 THEN n \div d ELSE -((-n) \div d)

Max2(a, b) == IF a >= b THEN a ELSE b
Min2(a, b) == IF a <= b THEN a ELSE b

\* centre, in half pixels: <<x1 + x2, y1 + y2>> stands for ((x1+x2)/2, (y1+y2)/2)
bbox_center(b) == <<b[1] + b[3], b[2] + b[4]>>

\* mutant: a point on an edge is outside
point_inside_open(b, p) ==
    /\ 2 * b[1] < p[1] /\ p[1] < 2 * b[3]
    /\ 2 * b[2] < p[2] /\ p[2] < 2 * b[4]

\* p is a point in half pixels
point_inside(b, p) ==
    /\ 2 * b[1] <= p[1] /\ p[1] <= 2 * b[3]
    /\ 2 * b[2] <= p[2] /\ p[2] <= 2 * b[4]

\* mutant: the width of the intersection is not cut at b's right edge
inter_area_to_right_of_a(a, b) ==
    LET inter_w == Max2(0, a[3] - Max2(a[1], b[1]))
        inter_h == Max2(0, Min2(a[4], b[4]) - Max2(a[2], b[2]))
    IN  inter_w * inter_h

inter_area(a, b) ==
    LET inter_w == Max2(0, Min2(a[3], b[3]) - Max2(a[1], b[1]))
        inter_h == Max2(0, Min2(a[4], b[4]) - Max2(a[2], b[2]))
    IN  inter_w * inter_h

box_area(a) == (a[3] - a[1]) * (a[4] - a[2])

\* mutant: the intersection is not taken out of the union
iou_sum_of_areas(a, b) ==
    LET inter == inter_area(a, b)
    IN  [num |-> inter * 1000000,
         den |-> (box_area(a) + box_area(b)) * 1000000 + 1]

\* inter / (area_a + area_b - inter + 1e-6), as the fraction num/den
iou(a, b) ==
    LET inter == inter_area(a, b)
    IN  [num |-> inter * 1000000,
         den |-> (box_area(a) + box_area(b) - inter) * 1000000 + 1]

\* the fraction f is > 0
FracPositive(f) == (f.num > 0 /\ f.den > 0) \/ (f.num < 0 /\ f.den < 0)

\* (x1, y1, x2, int(y1 + 0.3 * h))
head_region(person_bbox) ==
    LET h == person_bbox[4] - person_bbox[2]
    IN  <<person_bbox[1], person_bbox[2], person_bbox[3],
          IntTrunc(10 * person_bbox[2] + 3 * h, 10)>>

RECURSIVE assign_riders_to_bike(_, _)
assign_riders_to_bike(bike_bbox, person_bboxes) ==
    IF person_bboxes = <<>> THEN <<>>
    ELSE LET pb == Head(person_bboxes)
             rest == assign_riders_to_bike(bike_bbox, Tail(person_bboxes))
         IN  IF point_inside(bike_bbox, bbox_center(pb)) THEN <<pb>> \o rest ELSE rest

\* mutant: a helmet that touches the head region counts
has_helmet_for_person_touching(person_bbox, helmet_bboxes) ==
    \E i \in 1..Len(helmet_bboxes) :
        LET head == head_region(person_bbox)
            hb == helmet_bboxes[i]
        IN  /\ Max2(head[1], hb[1]) <= Min2(head[3], hb[3])
            /\ Max2(head[2], hb[2]) <= Min2(head[4], hb[4])

has_helmet_for_person(person_bbox, helmet_bboxes) ==
    \E i \in 1..Len(helmet_bboxes) :
        FracPositive(iou(head_region(person_bbox), helmet_bboxes[i]))

count_riders_on_bike(bike_bbox, person_bboxes) ==
    Len(assign_riders_to_bike(bike_bbox, person_bboxes))

(***************************************************************************)
(* detect.py: ViolationDetector                                            *)
(***************************************************************************)
EmptyBboxes ==
    [c \in {CLASS_PERSON, CLASS_BIKE, CLASS_HELMET, CLASS_PLATE} |-> <<>>]

\* mutant: the rule confidence instead of the detector's confidence
DirectViolationFixedConfidence(bbox, conf) ==
    [type |-> "helmet_violation", bbox |-> bbox, confidence |-> HELMET_VIOLATION_CONFIDENCE,
     detected_directly |-> TRUE]

DirectViolation(bbox, conf) ==
    [type |-> "helmet_violation", bbox |-> bbox, confidence |-> conf,
     detected_directly |-> TRUE]

TripleRidingViolation(bike_bbox, rider_count) ==
    [type |-> "triple_riding", bike_bbox |-> bike_bbox, riders |-> rider_count,
     confidence |-> TRIPLE_RIDING_CONFIDENCE]

\* mutant: the vehicle box is recorded as the rider box
HelmetViolationOfBike(rider_bbox, bike_bbox) ==
    [type |-> "helmet_violation", rider_bbox |-> bike_bbox, bike_bbox |-> bike_bbox,
     confidence |-> HELMET_VIOLATION_CONFIDENCE]

HelmetViolation(rider_bbox, bike_bbox) ==
    [type |-> "helmet_violation", rider_bbox |-> rider_bbox, bike_bbox |-> bike_bbox,
     confidence |-> HELMET_VIOLATION_CONFIDENCE]

FallbackViolation == [type |-> "helmet_violation", confidence |-> FALLBACK_CONFIDENCE]

\* the class of bboxes a detection is filed under, "" when the mode ignores it
MappedClass(mt, cls_name) ==
    IF mt = "custom_indonesian"
    THEN CASE cls_name \in {"pengendara"} -> CLASS_PERSON
           [] cls_name \in {"helm"} -> CLASS_HELMET
           [] cls_name \in {"platnomor"} -> CLASS_PLATE
           [] cls_name \in {"tanpahelm"} -> CLASS_PERSON
           [] OTHER -> ""
    ELSE CASE cls_name \in {"person"} -> CLASS_PERSON
           [] cls_name \in {"motorbike", "motorcycle", "bike"} -> CLASS_BIKE
           [] cls_name \in {"helmet"} -> CLASS_HELMET
           [] cls_name \in {"license_plate", "number_plate", "plate"} -> CLASS_PLATE
           [] OTHER -> ""

IsDirectClass(mt, cls_name) == mt = "custom_indonesian" /\ cls_name \in {"tanpahelm"}

\* mutant: a helmet violation for every rider, helmet or not
RECURSIVE RiderHelmetViolationsNoHelmetCheck(_, _, _)
RiderHelmetViolationsNoHelmetCheck(riders, bike_bbox, helmet_bboxes) ==
    IF riders = <<>> THEN <<>>
    ELSE <<[type |-> "helmet_violation", rider_bbox |-> Head(riders), bike_bbox |-> bike_bbox,
            confidence |-> HELMET_VIOLATION_CONFIDENCE]>>
         \o RiderHelmetViolationsNoHelmetCheck(Tail(riders), bike_bbox, helmet_bboxes)

\* helmet violations of one bike: one per rider without a helmet, in rider order
RECURSIVE RiderHelmetViolations(_, _, _)
RiderHelmetViolations(riders, bike_bbox, helmet_bboxes) ==
    IF riders = <<>> THEN <<>>
    ELSE LET rider_bbox == Head(riders)
             rest == RiderHelmetViolations(Tail(riders), bike_bbox, helmet_bboxes)
         IN  IF ~has_helmet_for_person(rider_bbox, helmet_bboxes)
             THEN <<HelmetViolation(rider_bbox, bike_bbox)>> \o rest
             ELSE rest

\* mutant: triple riding only above the threshold (rider_count > 3)
BikeViolationsAboveThree(mt, bike_bbox, person_bboxes, helmet_bboxes) ==
    LET riders == assign_riders_to_bike(bike_bbox, person_bboxes)
        rider_count == Len(riders)
    IN  (IF rider_count > TRIPLE_RIDING_MIN_RIDERS
         THEN <<TripleRidingViolation(bike_bbox, rider_count)>> ELSE <<>>)
        \o (IF mt # "custom_indonesian"
            THEN RiderHelmetViolations(riders, bike_bbox, helmet_bboxes) ELSE <<>>)

\* one iteration of "for bike_bbox in bikes"
BikeViolations(mt, bike_bbox, person_bboxes, helmet_bboxes) ==
    LET riders == assign_riders_to_bike(bike_bbox, person_bboxes)
        rider_count == Len(riders)
    IN  (IF rider_count >= TRIPLE_RIDING_MIN_RIDERS
         THEN <<TripleRidingViolation(bike_bbox, rider_count)>> ELSE <<>>)
        \o (IF mt # "custom_indonesian"
            THEN RiderHelmetViolations(riders, bike_bbox, helmet_bboxes) ELSE <<>>)

\* mutant: the TripleRiding violations of all bikes, then the helmet violations
RECURSIVE TripleViolationsOfAll(_, _)
TripleViolationsOfAll(bike_bboxes, person_bboxes) ==
    IF bike_bboxes = <<>> THEN <<>>
    ELSE (IF count_riders_on_bike(Head(bike_bboxes), person_bboxes) >= TRIPLE_RIDING_MIN_RIDERS
          THEN <<TripleRidingViolation(Head(bike_bboxes),
                                       count_riders_on_bike(Head(bike_bboxes), person_bboxes))>>
          ELSE <<>>)
         \o TripleViolationsOfAll(Tail(bike_bboxes), person_bboxes)

RECURSIVE HelmetViolationsOfAll(_, _, _, _)
HelmetViolationsOfAll(mt, bike_bboxes, person_bboxes, helmet_bboxes) ==
    IF bike_bboxes = <<>> \/ mt = "custom_indonesian" THEN <<>>
    ELSE RiderHelmetViolations(assign_riders_to_bike(Head(bike_bboxes), person_bboxes),
                               Head(bike_bboxes), helmet_bboxes)
         \o HelmetViolationsOfAll(mt, Tail(bike_bboxes), person_bboxes, helmet_bboxes)

SpatialViolationsGrouped(mt, bike_bboxes, person_bboxes, helmet_bboxes) ==
    TripleViolationsOfAll(bike_bboxes, person_bboxes)
    \o HelmetViolationsOfAll(mt, bike_bboxes, person_bboxes, helmet_bboxes)

\* the loop "for bike_bbox in bikes", appending to the violation list
RECURSIVE SpatialViolations(_, _, _, _)
SpatialViolations(mt, bike_bboxes, person_bboxes, helmet_bboxes) ==
    IF bike_bboxes = <<>> THEN <<>>
    ELSE BikeViolations(mt, Head(bike_bboxes), person_bboxes, helmet_bboxes)
         \o SpatialViolations(mt, Tail(bike_bboxes), person_bboxes, helmet_bboxes)

\* violations of the frame: direct violations, then the spatial ones
FrameViolations(mt, direct, bike_bboxes, person_bboxes, helmet_bboxes) ==
    (IF mt = "custom_indonesian" /\ direct # <<>> THEN direct ELSE <<>>)
    \o SpatialViolations(mt, bike_bboxes, person_bboxes, helmet_bboxes)

NumBoxes ==
    Len(bboxes[CLASS_PERSON]) + Len(bboxes[CLASS_BIKE]) + Len(bboxes[CLASS_HELMET])
    + Len(bboxes[CLASS_PLATE])
    + (IF model_type = "custom_indonesian" THEN Len(raw_bikes) ELSE 0)

DetInit ==
    /\ model_type \in ModelTypes
    /\ det_pc = "running"
    /\ bboxes = EmptyBboxes
    /\ raw_bikes = <<>>
    /\ direct_violations = <<>>
    /\ violations = <<>>

\* one iteration of "for box in results.boxes"
ExtractBox(det) ==
    /\ det_pc = "running"
    /\ model_type # "none"
    /\ NumBoxes < MaxBoxes
    /\ LET cls == MappedClass(model_type, det.cls_name)
       IN  /\ bboxes' = IF cls = "" THEN bboxes
                        ELSE [bboxes EXCEPT ![cls] = Append(@, det.bbox)]
           /\ direct_violations' =
                IF IsDirectClass(model_type, det.cls_name)
                THEN Append(direct_violations, DirectViolation(det.bbox, det.conf))
                ELSE direct_violations
    /\ raw_bikes' = IF det.cls_name \in VehicleClassNames
                    THEN Append(raw_bikes, det.bbox) ELSE raw_bikes
    /\ UNCHANGED <<model_type, det_pc, violations>>
    /\ UNCHANGED other_than_det

\* the rest of _yolo_advanced_detection, after the extraction loop
SpatialReasoning ==
    /\ det_pc = "running"
    /\ model_type # "none"
    /\ violations' = FrameViolations(model_type, direct_violations, bboxes[CLASS_BIKE],
                                     bboxes[CLASS_PERSON], bboxes[CLASS_HELMET])
    /\ det_pc' = "done"
    /\ UNCHANGED <<model_type, bboxes, raw_bikes, direct_violations>>
    /\ UNCHANGED other_than_det

\* _fallback_detection: vehicle_count contours of the right area
FallbackDetection(vehicle_count) ==
    /\ det_pc = "running"
    /\ model_type = "none"
    /\ violations' = [i \in 1..Min2(vehicle_count, FALLBACK_MAX_VIOLATIONS) |-> FallbackViolation]
    /\ det_pc' = "done"
    /\ UNCHANGED <<model_type, bboxes, raw_bikes, direct_violations>>
    /\ UNCHANGED other_than_det

\* detect_violations is called for the next frame
NextFrame ==
    /\ det_pc = "done"
    /\ det_pc' = "running"
    /\ bboxes' = EmptyBboxes
    /\ raw_bikes' = <<>>
    /\ direct_violations' = <<>>
    /\ violations' = <<>>
    /\ UNCHANGED model_type
    /\ UNCHANGED other_than_det

(***************************************************************************)
(* Persistence (db.models.DatabaseManager) and rules.py                    *)
(***************************************************************************)
Workers == {"w1", "w2"}

\* plates the reader returns; "UNKNOWN" is the reader's failure sentinel
WorkerPlates == {"MH01AB1234", "UNKNOWN"}

\* detections handed to process_violation
WorkerDetections ==
    {[type |-> "helmet_violation", bbox |-> BoxA, confidence |-> 30, detected_directly |-> TRUE],
     [type |-> "triple_riding", bbox |-> BoxA, confidence |-> 90],
     [type |-> "triple_riding", bike_bbox |-> BoxA, riders |-> 3, confidence |-> 90]}

\* detection results handed to create_demo_violation (type of each violation)
WebViolationLists ==
    {<<"helmet_violation">>, <<"triple_riding">>, <<"helmet_violation", "triple_riding">>}

WebPlates == {"MH01AB1234"}

demo_violations ==
    <<[vehicle_no |-> "MH01AB1234", violation_type |-> "NO_HELMET"],
      [vehicle_no |-> "KA05CD5678", violation_type |-> "TRIPLE_RIDING"],
      [vehicle_no |-> "MH01AB1234", violation_type |-> "NO_HELMET"],
      [vehicle_no |-> "TN07EF9012", violation_type |-> "TRIPLE_RIDING"],
      [vehicle_no |-> "DL03GH3456", violation_type |-> "NO_HELMET"]>>

\* DatabaseManager.count_previous_violations: rows of the table for the vehicle
RECURSIVE count_previous_violations(_, _)
count_previous_violations(db, vehicle_no) ==
    IF db = <<>> THEN 0
    ELSE (IF Head(db).vehicle_no = vehicle_no THEN 1 ELSE 0)
         + count_previous_violations(Tail(db), vehicle_no)

\* DatabaseManager.insert_violation: one more row
insert_violation(db, vehicle_no, violation_type, fine_amount) ==
    Append(db, [vehicle_no |-> vehicle_no, violation_type |-> violation_type,
                fine_amount |-> fine_amount])

\* mutant: the second offence is still priced as a first offence
compute_fine_one_free(vehicle_no, violation_type, db) ==
    LET previous_violations == count_previous_violations(db, vehicle_no)
    IN  IF previous_violations <= 1 THEN FIRST_OFFENSE_FINE ELSE REPEAT_OFFENSE_FINE

compute_fine(vehicle_no, violation_type, db) ==
    LET previous_violations == count_previous_violations(db, vehicle_no)
    IN  IF previous_violations = 0 THEN FIRST_OFFENSE_FINE ELSE REPEAT_OFFENSE_FINE

\* rows written or about to be written
PendingInserts ==
    Cardinality({w \in Workers : w_pc[w] = "computed"})
    + (IF seed_pc = "insert" THEN 1 ELSE 0)

RoomForRecord == Len(db_violations) + PendingInserts < MaxRecords

FineInit ==
    /\ db_violations = <<>>
    /\ w_pc = [w \in Workers |-> "idle"]
    /\ w_vehicle_no = [w \in Workers |-> ""]
    /\ w_violation_type = [w \in Workers |-> ""]
    /\ w_fine_amount = [w \in Workers |-> 0]
    /\ seed_idx = 0
    /\ seed_pc = "compute"
    /\ seed_fine_amount = 0

(***************************************************************************)
(* worker.py: ViolationWorker.process_violation                            *)
(***************************************************************************)
\* up to and including compute_fine; a detection without 'bbox' raises KeyError
\* and an unreadable plate is skipped: both return None
ProcessViolationComputeFine(w, detection, plate) ==
    /\ w_pc[w] = "idle"
    /\ RoomForRecord
    /\ IF "bbox" \notin DOMAIN detection \/ plate = "UNKNOWN"
       THEN UNCHANGED <<w_pc, w_vehicle_no, w_violation_type, w_fine_amount>>
       ELSE /\ w_vehicle_no' = [w_vehicle_no EXCEPT ![w] = plate]
            /\ w_violation_type' = [w_violation_type EXCEPT ![w] = detection.type]
            /\ w_fine_amount' =
                 [w_fine_amount EXCEPT ![w] = compute_fine(plate, detection.type, db_violations)]
            /\ w_pc' = [w_pc EXCEPT ![w] = "computed"]
    /\ UNCHANGED <<db_violations, seed_idx, seed_pc, seed_fine_amount>>
    /\ UNCHANGED other_than_fine

\* snapshot, description, insert_violation, build_pdf, return
ProcessViolationInsert(w) ==
    /\ w_pc[w] = "computed"
    /\ db_violations' = insert_violation(db_violations, w_vehicle_no[w],
                                         w_violation_type[w], w_fine_amount[w])
    /\ w_pc' = [w_pc EXCEPT ![w] = "idle"]
    /\ UNCHANGED <<w_vehicle_no, w_violation_type, w_fine_amount,
                   seed_idx, seed_pc, seed_fine_amount>>
    /\ UNCHANGED other_than_fine

(***************************************************************************)
(* seed_demo_data.py: seed_demo_violations                                 *)
(***************************************************************************)
SeedComputeFine ==
    /\ seed_pc = "compute"
    /\ seed_idx < Len(demo_violations)
    /\ RoomForRecord
    /\ seed_fine_amount' = compute_fine(demo_violations[seed_idx + 1].vehicle_no,
                                        demo_violations[seed_idx + 1].violation_type,
                                        db_violations)
    /\ seed_pc' = "insert"
    /\ UNCHANGED <<db_violations, w_pc, w_vehicle_no, w_violation_type, w_fine_amount, seed_idx>>
    /\ UNCHANGED other_than_fine

SeedInsert ==
    /\ seed_pc = "insert"
    /\ db_violations' = insert_violation(db_violations,
                                         demo_violations[seed_idx + 1].vehicle_no,
                                         demo_violations[seed_idx + 1].violation_type,
                                         seed_fine_amount)
    /\ seed_idx' = seed_idx + 1
    /\ seed_pc' = "compute"
    /\ UNCHANGED <<w_pc, w_vehicle_no, w_violation_type, w_fine_amount, seed_fine_amount>>
    /\ UNCHANGED other_than_fine

(***************************************************************************)
(* app.py: create_demo_violation                                           *)
(***************************************************************************)
RECURSIVE FlatTotalFine(_)
FlatTotalFine(types) ==
    IF types = <<>> THEN 0
    ELSE (CASE Head(types) = "helmet_violation" -> HELMET_FLAT_FINE
            [] Head(types) = "triple_riding" -> TRIPLE_FLAT_FINE
            [] OTHER -> 0)
         + FlatTotalFine(Tail(types))

RECURSIVE ViolationTypeNames(_)
ViolationTypeNames(types) ==
    IF types = <<>> THEN <<>>
    ELSE (CASE Head(types) = "helmet_violation" -> <<"Riding without Helmet">>
            [] Head(types) = "triple_riding" -> <<"Triple Riding">>
            [] OTHER -> <<>>)
         \o ViolationTypeNames(Tail(types))

\* ' + '.join(violation_types), kept as the list of joined names
CombinedViolation(types) ==
    IF ViolationTypeNames(types) # <<>> THEN ViolationTypeNames(types)
    ELSE <<"Traffic Violation">>

CreateDemoViolation(license_plate, types) ==
    /\ RoomForRecord
    /\ db_violations' = insert_violation(db_violations, license_plate,
                                         CombinedViolation(types), FlatTotalFine(types))
    /\ UNCHANGED <<w_pc, w_vehicle_no, w_violation_type, w_fine_amount,
                   seed_idx, seed_pc, seed_fine_amount>>
    /\ UNCHANGED other_than_fine


(***************************************************************************)
(* video_processor.py: VideoProcessor.process_video                        *)
(***************************************************************************)
\* denominator of the reported frame rates (halves of a frame per second)
FPS_DEN == 2

\* confidence attached to every plate read in a frame
PLATE_CONFIDENCE == 85

\* plate strings read_plate returns: one plate, the same plate in lower case,
\* another plate
PlateStrings == <<"TS09AB1234", "ts09ab1234", "AP28CD5678">>

\* plate_numbers.append({'number': plate_text, 'bbox': plate_bbox, 'confidence': 0.85});
\* an empty reading and 'UNKNOWN' are not appended
PlateNumbers(plate_texts) ==
    LET kept == SelectSeq(plate_texts, LAMBDA t : t # "" /\ t # "UNKNOWN")
    IN  [i \in 1..Len(kept) |->
            [number |-> kept[i], bbox |-> BoxD, confidence |-> PLATE_CONFIDENCE]]

\* the dict detect_violations returns for a frame
DetectionResult(frame_violations, plate_texts) ==
    [violations |-> frame_violations, plate_numbers |-> PlateNumbers(plate_texts)]

\* results the detector returns for the frames of a video
FrameResults ==
    {DetectionResult(<<>>, <<PlateStrings[1]>>),
     DetectionResult(<<FallbackViolation>>, <<>>),
     DetectionResult(<<TripleRidingViolation(BoxA, 3), HelmetViolation(BoxD, BoxA)>>,
                     <<PlateStrings[1], "UNKNOWN", PlateStrings[3]>>)}

\* timestamp_sec = frame_idx / fps if fps > 0 else frame_idx
TimestampSec(idx, f) ==
    IF f > 0 THEN [num |-> idx, den |-> f] ELSE [num |-> idx, den |-> 1]

\* _format_timestamp: HH:MM:SS as <<hours, minutes, secs>>
format_timestamp(seconds) ==
    LET whole == seconds.num \div seconds.den
    IN  <<whole \div 3600, (whole % 3600) \div 60, whole % 60>>

\* mutant: the entry is stamped with the wall-clock time of its making
ViolationInfoStamped(idx, f, result) ==
    [frame_number |-> idx,
     timestamp |-> format_timestamp(TimestampSec(idx, f)),
     timestamp_seconds |-> TimestampSec(idx, f),
     violations |-> result.violations,
     plate_numbers |-> result.plate_numbers,
     processed_at |-> run_clock]

\* violation_info; counts and frame_path are left out
ViolationInfo(idx, f, result) ==
    [frame_number |-> idx,
     timestamp |-> format_timestamp(TimestampSec(idx, f)),
     timestamp_seconds |-> TimestampSec(idx, f),
     violations |-> result.violations,
     plate_numbers |-> result.plate_numbers]

\* mutant: the newest entry first
TimelinePrepend(timeline, violation_info) == <<violation_info>> \o timeline

\* violations_timeline.append(violation_info)
TimelineAppend(timeline, violation_info) == Append(timeline, violation_info)

\* Python's None
None == [none |-> TRUE]

\* mutant: a capture that did not open is not noticed
OpenErrorIgnoringUnopened(exists, opened) ==
    IF ~exists THEN "FileNotFoundError" ELSE "none"

\* the exception the checks before the frame loop raise, "none" if they pass
OpenError(exists, opened) ==
    IF ~exists THEN "FileNotFoundError"
    ELSE IF ~opened THEN "ValueError"
    ELSE "none"

\* mutant: what was accumulated is discarded
SummaryDiscardingResults(f, skip, analyzed, total, timeline) ==
    [video_info |-> [fps |-> f],
     processing_info |-> [frames_analyzed |-> 0, frame_skip |-> skip],
     results |-> [total_violations |-> 0,
                  violation_frames_count |-> 0,
                  violations_timeline |-> <<>>]]

\* the summary dict; resolution, total_frames and duration of video_info, the
\* processing_rate string and the saved frame paths are left out
Summary(f, skip, analyzed, total, timeline) ==
    [video_info |-> [fps |-> f],
     processing_info |-> [frames_analyzed |-> analyzed, frame_skip |-> skip],
     results |-> [total_violations |-> total,
                  violation_frames_count |-> Len(timeline),
                  violations_timeline |-> timeline]]

VidInit ==
    /\ vid_pc = "closed"
    /\ cap_fps = [num |-> 0, den |-> FPS_DEN]
    /\ cap_frames = <<>>
    /\ fps = 0
    /\ frame_skip = 1
    /\ frame_idx = 0
    /\ violations_timeline = <<>>
    /\ frames_processed = 0
    /\ total_violations = 0
    /\ video_exists = TRUE
    /\ cap_opened = FALSE
    /\ cap_exhausted = FALSE
    /\ vid_error = "none"
    /\ summary = None
    /\ demo_result = None

\* process_video_file(video_path, output_dir, frame_skip) up to the frame loop:
\* the path is tested, the capture opened, the properties read
OpenVideo(exists, opened, fps_num, skip) ==
    /\ vid_pc = "closed"
    /\ opened => exists
    /\ video_exists' = exists
    /\ cap_opened' = opened
    /\ frame_skip' = skip
    /\ vid_error' = OpenError(exists, opened)
    /\ IF OpenError(exists, opened) # "none"
       THEN /\ vid_pc' = "failed"
            /\ UNCHANGED <<cap_fps, fps, frame_idx, violations_timeline,
                           frames_processed, total_violations>>
       ELSE /\ cap_fps' = [num |-> fps_num, den |-> FPS_DEN]
            /\ fps' = IntTrunc(fps_num, FPS_DEN)
            /\ frame_idx' = 0
            /\ violations_timeline' = <<>>
            /\ frames_processed' = 0
            /\ total_violations' = 0
            /\ vid_pc' = "reading"
    /\ UNCHANGED <<cap_frames, cap_exhausted, summary, demo_result>>
    /\ UNCHANGED other_than_vid

\* one iteration of the loop with ret = True; result is what the detector
\* returns for the frame
ReadFrame(result) ==
    /\ vid_pc = "reading"
    /\ Len(cap_frames) < MaxFrames
    /\ cap_frames' = Append(cap_frames, result.violations)
    /\ IF frame_idx % frame_skip # 0
       THEN UNCHANGED <<violations_timeline, frames_processed, total_violations>>
       ELSE /\ frames_processed' = frames_processed + 1
            /\ IF result.violations # <<>>
               THEN /\ total_violations' = total_violations + Len(result.violations)
                    /\ violations_timeline' =
                         TimelineAppend(violations_timeline,
                                        ViolationInfo(frame_idx, fps, result))
               ELSE UNCHANGED <<violations_timeline, total_violations>>
    /\ frame_idx' = frame_idx + 1
    /\ UNCHANGED <<vid_pc, cap_fps, fps, frame_skip, video_exists, cap_opened,
                   cap_exhausted, vid_error, summary, demo_result>>
    /\ UNCHANGED other_than_vid

\* ret = False: the loop ends, the summary is built and returned
LoopBreak ==
    /\ vid_pc = "reading"
    /\ vid_pc' = "done"
    /\ summary' = Summary(fps, frame_skip, frames_processed, total_violations,
                          violations_timeline)
    /\ UNCHANGED <<cap_fps, cap_frames, fps, frame_skip, frame_idx,
                   violations_timeline, frames_processed, total_violations,
                   video_exists, cap_opened, vid_error, demo_result>>
    /\ UNCHANGED other_than_vid

\* cap.read() returns no frame because the source has no more frames
EndOfStream ==
    /\ cap_exhausted' = TRUE
    /\ LoopBreak

\* cap.read() returns no frame because a frame of the source cannot be decoded
DecodeFailure ==
    /\ cap_exhausted' = FALSE
    /\ LoopBreak


(***************************************************************************)
(* app.py: process_demo_video, after process_video_file has returned       *)
(***************************************************************************)
VIDEO_HELMET_FINE == 500
VIDEO_TRIPLE_FINE == 1000

\* the inner loop of "Calculate total fine"
RECURSIVE FrameTotalFine(_)
FrameTotalFine(frame_violations) ==
    IF frame_violations = <<>> THEN 0
    ELSE (CASE Head(frame_violations).type = "helmet_violation" -> VIDEO_HELMET_FINE
            [] Head(frame_violations).type = "triple_riding" -> VIDEO_TRIPLE_FINE
            [] OTHER -> 0)
         + FrameTotalFine(Tail(frame_violations))

RECURSIVE TimelineTotalFine(_)
TimelineTotalFine(timeline) ==
    IF timeline = <<>> THEN 0
    ELSE FrameTotalFine(Head(timeline).violations) + TimelineTotalFine(Tail(timeline))

\* upper() of the plate strings of the model
UpperCase(text) == IF text = PlateStrings[2] THEN PlateStrings[1] ELSE text

\* mutant: membership that ignores case
PlateListedIgnoringCase(all_plate_numbers, number) ==
    \E i \in DOMAIN all_plate_numbers : UpperCase(all_plate_numbers[i]) = UpperCase(number)

\* plate['number'] in all_plate_numbers
PlateListed(all_plate_numbers, number) ==
    \E i \in DOMAIN all_plate_numbers : all_plate_numbers[i] = number

\* the inner loop of "Get plate numbers from timeline"
RECURSIVE AppendNewPlates(_, _)
AppendNewPlates(all_plate_numbers, plates) ==
    IF plates = <<>> THEN all_plate_numbers
    ELSE AppendNewPlates(IF PlateListed(all_plate_numbers, Head(plates).number)
                         THEN all_plate_numbers
                         ELSE Append(all_plate_numbers, Head(plates).number),
                         Tail(plates))

RECURSIVE AllPlateNumbers(_, _)
AllPlateNumbers(all_plate_numbers, timeline) ==
    IF timeline = <<>> THEN all_plate_numbers
    ELSE AllPlateNumbers(AppendNewPlates(all_plate_numbers, Head(timeline).plate_numbers),
                         Tail(timeline))

\* the result dict of a processed video; paths and dates are left out
DemoVideoResult(video_result) ==
    [video_info |-> video_result.video_info,
     processing_info |-> video_result.processing_info,
     total_violations |-> video_result.results.total_violations,
     violations_timeline |-> video_result.results.violations_timeline,
     total_fine |-> TimelineTotalFine(video_result.results.violations_timeline),
     plate_numbers |-> AllPlateNumbers(<<>>, video_result.results.violations_timeline),
     violations_found |-> video_result.results.total_violations > 0]

\* the result dict of the except branch
DemoVideoError(e) ==
    [error |-> e, violations_found |-> FALSE, total_violations |-> 0, total_fine |-> 0]

\* frame_skip=30 of the call of process_video_file, scaled to the frame bound
DemoFrameSkip == 2

\* frame rates of the uploaded videos, in 1/FPS_DEN
DemoFpsNums == {0, 2 * FPS_DEN}

\* results the detector returns for the frames of an uploaded video
DemoFrameResults ==
    {DetectionResult(<<>>, <<PlateStrings[1]>>),
     DetectionResult(<<FallbackViolation>>, <<>>),
     DetectionResult(<<HelmetViolation(BoxD, BoxA)>>, <<PlateStrings[2], PlateStrings[1]>>),
     DetectionResult(<<TripleRidingViolation(BoxA, 3), HelmetViolation(BoxD, BoxA)>>,
                     <<PlateStrings[3], "UNKNOWN", PlateStrings[1], PlateStrings[3]>>)}

\* process_demo_video from the return of process_video_file, or from the
\* exception it raised, to its own return
ProcessDemoVideoResult ==
    /\ vid_pc \in {"done", "failed"}
    /\ demo_result = None
    /\ demo_result' = IF vid_pc = "failed" THEN DemoVideoError(vid_error)
                      ELSE DemoVideoResult(summary)
    /\ UNCHANGED <<vid_pc, cap_fps, cap_frames, fps, frame_skip, frame_idx,
                   violations_timeline, frames_processed, total_violations,
                   video_exists, cap_opened, cap_exhausted, vid_error, summary>>
    /\ UNCHANGED other_than_vid

(***************************************************************************)
(* enhanced_pdf.py: the fine estimate of generate_enhanced_pdf             *)
(***************************************************************************)
PDF_HELMET_FINE == 500
PDF_NO_HELMET_FINE == 1000
PDF_TRIPLE_FINE == 1000
PDF_DEFAULT_FINE == 500

FINES ==
    [helmet_violation |-> PDF_HELMET_FINE,
     no_helmet |-> PDF_NO_HELMET_FINE,
     triple_riding |-> PDF_TRIPLE_FINE]

\* FINES.get(v_type, 500)
FinesGet(v_type) == IF v_type \in DOMAIN FINES THEN FINES[v_type] ELSE PDF_DEFAULT_FINE

\* total_fine over evidence["violations"]
RECURSIVE PdfTotalFine(_)
PdfTotalFine(evidence_violations) ==
    IF evidence_violations = <<>> THEN 0
    ELSE LET v == Head(evidence_violations)
             v_type == IF "type" \in DOMAIN v THEN v.type ELSE "unknown"
         IN  FinesGet(v_type) + PdfTotalFine(Tail(evidence_violations))

(***************************************************************************)
(* The two fine estimates applied to the same violations.                   *)
(***************************************************************************)
MaxTimeline == 2

\* violation types: the two the detector emits, one only the PDF table knows,
\* one no table knows
EstimateTypes == {"helmet_violation", "triple_riding", "no_helmet", "wrong_way"}

\* violation lists of one and of two violations
EstimateViolationLists ==
    {<<[type |-> t]>> : t \in EstimateTypes}
    \cup {<<[type |-> t], [type |-> "helmet_violation"]>> : t \in EstimateTypes}

EstimateEntries ==
    {[violations |-> vs, plate_numbers |-> <<>>] : vs \in EstimateViolationLists}

EstimateTimelines == UNION {[1..n -> EstimateEntries] : n \in 0..MaxTimeline}

RECURSIVE TimelineViolations(_)
TimelineViolations(timeline) ==
    IF timeline = <<>> THEN <<>>
    ELSE Head(timeline).violations \o TimelineViolations(Tail(timeline))

EstInit ==
    /\ est_pc = "idle"
    /\ est_timeline = <<>>
    /\ web_total_fine = 0
    /\ pdf_total_fine = 0

\* the web total of a timeline and the PDF estimate of its violations
EstimateFines(timeline) ==
    /\ est_pc = "idle"
    /\ est_pc' = "done"
    /\ est_timeline' = timeline
    /\ web_total_fine' = TimelineTotalFine(timeline)
    /\ pdf_total_fine' = PdfTotalFine(TimelineViolations(timeline))
    /\ UNCHANGED other_than_est


(***************************************************************************)
(* spatial_logic.py applied to the boxes of a pixel grid.                  *)
(***************************************************************************)
MaxCoord == 3
MaxRiderPos == 2
MaxHelmetPos == 4
MaxListLen == 2
MaxTop == 3
MaxHeight == 10

SeqsUpTo(S, n) == UNION {[1..k -> S] : k \in 0..n}

\* well-formed integer boxes (x1 <= x2, y1 <= y2), zero areas included
GridBoxes ==
    {b \in (0..MaxCoord) \X (0..MaxCoord) \X (0..MaxCoord) \X (0..MaxCoord) :
        b[1] <= b[3] /\ b[2] <= b[4]}

\* vehicle boxes that overlap each other
GeoBike1 == <<0, 0, 2, 2>>
GeoBike2 == <<1, 1, 4, 4>>
GeoBike3 == <<2, 0, 3, 3>>
GeoBikeLists == {<<GeoBike1>>, <<GeoBike1, GeoBike2>>, <<GeoBike2, GeoBike3, GeoBike1>>}

\* person boxes of width 1 or 2 and height 2
RiderBoxes ==
    {<<x, y, x + s, y + 2>> : x \in 0..MaxRiderPos, y \in 0..MaxRiderPos, s \in 1..2}

\* persons of height 10, 3 and 7
HelmetPersons == {<<1, 1, 3, 11>>, <<1, 1, 3, 4>>, <<0, 0, 4, 7>>}

\* helmet boxes of 2 x 2 pixels
HelmetBoxes == {<<x, y, x + 2, y + 2>> : x \in 0..MaxHelmetPos, y \in 0..MaxHelmetPos}

\* person boxes by top edge and height
HeadPersons == {<<0, y1, 2, y1 + h>> : y1 \in 0..MaxTop, h \in 1..MaxHeight}

GeoInit ==
    /\ geo_op = "none"
    /\ geo_args = <<>>
    /\ geo_result = <<>>

\* for bike_bbox in bikes: riders = assign_riders_to_bike(bike_bbox, persons)
AssignRidersToBike ==
    /\ geo_op = "none"
    /\ \E bike_bboxes \in GeoBikeLists, person_bboxes \in SeqsUpTo(RiderBoxes, MaxListLen) :
        /\ geo_args' = <<bike_bboxes, person_bboxes>>
        /\ geo_result' = [k \in 1..Len(bike_bboxes) |->
                            assign_riders_to_bike(bike_bboxes[k], person_bboxes)]
    /\ geo_op' = "assign_riders_to_bike"
    /\ UNCHANGED other_than_geo

HasHelmetForPerson ==
    /\ geo_op = "none"
    /\ \E person_bbox \in HelmetPersons, helmet_bboxes \in SeqsUpTo(HelmetBoxes, MaxListLen) :
        /\ geo_args' = <<person_bbox, helmet_bboxes>>
        /\ geo_result' = has_helmet_for_person(person_bbox, helmet_bboxes)
    /\ geo_op' = "has_helmet_for_person"
    /\ UNCHANGED other_than_geo

HeadRegion ==
    /\ geo_op = "none"
    /\ \E person_bbox \in HeadPersons :
        /\ geo_args' = <<person_bbox>>
        /\ geo_result' = head_region(person_bbox)
    /\ geo_op' = "head_region"
    /\ UNCHANGED other_than_geo

Iou ==
    /\ geo_op = "none"
    /\ \E a \in GridBoxes, b \in GridBoxes :
        /\ geo_args' = <<a, b>>
        /\ geo_result' = iou(a, b)
    /\ geo_op' = "iou"
    /\ UNCHANGED other_than_geo


(***************************************************************************)
(* ai_detector.py: detect_violations                                       *)
(***************************************************************************)
MaxAiViolations == 3

DEFAULT_CONFIDENCE == 80

\* violation.get('confidence', 0.8)
ViolationConfidence(violation) ==
    IF "confidence" \in DOMAIN violation THEN violation.confidence ELSE DEFAULT_CONFIDENCE

\* the type names of other detectors are mapped to the web application's
NormalizedType(vtype) ==
    IF vtype \in {"NO_HELMET", "no_helmet"} THEN "helmet_violation"
    ELSE IF vtype = "TRIPLE_RIDING" THEN "triple_riding"
    ELSE vtype

DictGet(d, key) == IF key \in DOMAIN d THEN d[key] ELSE None

FormatViolation(violation) ==
    [type |-> NormalizedType(violation.type),
     confidence |-> ViolationConfidence(violation),
     metadata |-> [bike_bbox |-> DictGet(violation, "bike_bbox"),
                   rider_bbox |-> DictGet(violation, "rider_bbox"),
                   riders |-> DictGet(violation, "riders")]]

\* only the entries with a 'type' are formatted
RECURSIVE FormattedViolations(_)
FormattedViolations(vs) ==
    IF vs = <<>> THEN <<>>
    ELSE (IF "type" \in DOMAIN Head(vs) THEN <<FormatViolation(Head(vs))>> ELSE <<>>)
         \o FormattedViolations(Tail(vs))

RECURSIVE SumOfConfidences(_)
SumOfConfidences(formatted_violations) ==
    IF formatted_violations = <<>> THEN 0
    ELSE Head(formatted_violations).confidence + SumOfConfidences(Tail(formatted_violations))

\* mutant: 0 stands for "no violations"
DetectionConfidenceZeroWhenEmpty(formatted_violations) ==
    IF formatted_violations # <<>>
    THEN [num |-> SumOfConfidences(formatted_violations), den |-> Len(formatted_violations)]
    ELSE [num |-> 0, den |-> 1]

\* sum(confidences) / len(confidences) in hundredths, None for an empty list
DetectionConfidence(formatted_violations) ==
    IF formatted_violations # <<>>
    THEN [num |-> SumOfConfidences(formatted_violations), den |-> Len(formatted_violations)]
    ELSE None

AiResult(vs, is_vehicle_image) ==
    [violations |-> FormattedViolations(vs),
     is_vehicle_image |-> is_vehicle_image,
     detection_confidence |-> DetectionConfidence(FormattedViolations(vs))]

UnreadableImageResult ==
    [violations |-> <<>>, is_vehicle_image |-> FALSE, error |-> "Could not read image"]

\* the violation dicts the detector can put in its list
AiViolationPool ==
    {TripleRidingViolation(BoxA, 3), HelmetViolation(BoxD, BoxA),
     DirectViolation(BoxA, 30), DirectViolation(BoxD, 95), FallbackViolation}

AiViolationLists == SeqsUpTo(AiViolationPool, MaxAiViolations)

AiInit ==
    /\ ai_pc = "idle"
    /\ ai_violations = <<>>
    /\ ai_result = None

\* detect_violations on an image cv2 can read
AiDetectViolations ==
    /\ ai_pc = "idle"
    /\ \E vs \in AiViolationLists, is_vehicle_image \in BOOLEAN :
        /\ ai_violations' = vs
        /\ ai_result' = AiResult(vs, is_vehicle_image)
    /\ ai_pc' = "done"
    /\ UNCHANGED other_than_ai

\* detect_violations on an image cv2 cannot read: the detector is not run
AiUnreadableImage ==
    /\ ai_pc = "idle"
    /\ ai_violations' = <<>>
    /\ ai_result' = UnreadableImageResult
    /\ ai_pc' = "done"
    /\ UNCHANGED other_than_ai

(***************************************************************************)
(* paddle_ocr_reader.py: PaddleOCRReader.  A text is the sequence of its   *)
(* characters.                                                             *)
(***************************************************************************)
MaxTextLen == 6
MaxCandidates == 3

LowerLetters == <<"a", "b", "c", "d", "e", "f", "g", "h", "i", "j", "k", "l", "m",
                  "n", "o", "p", "q", "r", "s", "t", "u", "v", "w", "x", "y", "z">>
UpperLetters == <<"A", "B", "C", "D", "E", "F", "G", "H", "I", "J", "K", "L", "M",
                  "N", "O", "P", "Q", "R", "S", "T", "U", "V", "W", "X", "Y", "Z">>
Digits == {"0", "1", "2", "3", "4", "5", "6", "7", "8", "9"}

IsUpperLetter(c) == \E i \in DOMAIN UpperLetters : UpperLetters[i] = c
IsDigit(c) == c \in Digits

UNKNOWN == <<"U", "N", "K", "N", "O", "W", "N">>

\* str.upper() on the characters of the texts considered
UpperChar(c) ==
    IF \E i \in DOMAIN LowerLetters : LowerLetters[i] = c
    THEN UpperLetters[CHOOSE i \in DOMAIN LowerLetters : LowerLetters[i] = c]
    ELSE c

TextUpper(text) == [i \in DOMAIN text |-> UpperChar(text[i])]

\* mutant: the characters are filtered before they are upper-cased
clean_text_filter_first(text) ==
    TextUpper(SelectSeq(text, LAMBDA c : IsUpperLetter(c) \/ IsDigit(c)))

\* re.sub(r'[^A-Z0-9]', '', text.upper())
clean_text(text) ==
    SelectSeq(TextUpper(text), LAMBDA c : IsUpperLetter(c) \/ IsDigit(c))

\* re.match(r'^[A-Z]{2}\d{2}[A-Z]{1,2}\d{4}$', clean)
indian_plate_pattern(clean) ==
    /\ Len(clean) \in {9, 10}
    /\ \A i \in DOMAIN clean :
        IF i \in {1, 2} \/ (i >= 5 /\ i <= Len(clean) - 4)
        THEN IsUpperLetter(clean[i])
        ELSE IsDigit(clean[i])

\* a missing text (None)
NoText == <<"<None>">>

\* "not text": None and the empty text
Falsy(text) == text = NoText \/ text = <<>>

\* mutant: the last case returns the text as it was given
normalize_plate_text_returning_raw(text) ==
    IF Falsy(text) THEN UNKNOWN
    ELSE LET clean == clean_text(text)
         IN  IF indian_plate_pattern(clean) THEN clean
             ELSE IF 8 <= Len(clean) /\ Len(clean) <= 10 THEN clean
             ELSE IF Len(clean) < 5 THEN UNKNOWN
             ELSE text

normalize_plate_text(text) ==
    IF Falsy(text) THEN UNKNOWN
    ELSE LET clean == clean_text(text)
         IN  IF indian_plate_pattern(clean) THEN clean
             ELSE IF 8 <= Len(clean) /\ Len(clean) <= 10 THEN clean
             ELSE IF Len(clean) < 5 THEN UNKNOWN
             ELSE clean

\* the best candidate of the loop of _paddle_ocr, from best_text = "", best_conf = 0.0
RECURSIVE PaddleBest(_, _)
PaddleBest(lines, best) ==
    IF lines = <<>> THEN best
    ELSE PaddleBest(Tail(lines),
                    IF Head(lines).conf > best.conf THEN Head(lines) ELSE best)

\* max(results, key=lambda x: x[2]): the first of the largest
RECURSIVE MaxByConf(_)
MaxByConf(results) ==
    IF Len(results) = 1 THEN Head(results)
    ELSE LET rest == MaxByConf(Tail(results))
         IN  IF Head(results).conf >= rest.conf THEN Head(results) ELSE rest

\* texts of the normalizer: all short ones over a few characters, and longer ones
TextChars == {"A", "a", "7", "-"}

LongTexts ==
    {<<"m", "h", " ", "0", "1", "-", "a", "b", " ", "1", "2", "3", "4">>,
     <<"M", "H", "0", "1", "A", "B", "1", "2", "3", "4">>,
     <<"M", "H", "0", "1", "A", "1", "2", "3", "4">>,
     <<"A", "B", "1", "2", "C", "D", "3", "4">>,
     <<"1", "2", "-", "A", "B", "-", "3", "4", "5", "6">>,
     <<"A", "1", "B", "2", "C", "3", "D", "4", "E", "5", "F">>,
     <<"A", "B", "C", "1", "2", "3", "4", "5", "6", "7", "8", "9", "X", "Y", "Z">>,
     <<"a", "b", "c", "-", "1", "2", "3", "4", "5", "6", "7", "8", "9", " ", "x">>,
     <<"U", "N", "K", "N", "O", "W", "N">>,
     <<"u", "n", "k", "n", "o", "w", "n">>,
     <<"X">>,
     NoText}

NormalizerTexts == SeqsUpTo(TextChars, MaxTextLen) \cup LongTexts

\* what the OCR engine can return for a crop: (text, confidence) candidates
CandidateTexts ==
    {<<"M", "H", "0", "1", "A", "B", "1", "2", "3", "4">>,
     <<"k", "a", "0", "5", " ", "m", "n", "4", "3", "2", "1">>,
     <<"A", "B", "1", "2">>}

CandidateConfs == {0, 50, 90}

Candidates == {[text |-> t, conf |-> c] : t \in CandidateTexts, c \in CandidateConfs}

CandidateLists == SeqsUpTo(Candidates, MaxCandidates)

OcrInit ==
    /\ ocr_op = "none"
    /\ ocr_text = NoText
    /\ ocr_candidates = <<>>
    /\ ocr_result = NoText
    /\ ocr_conf = 0

\* _normalize_plate_text(text)
NormalizePlateText ==
    /\ ocr_op = "none"
    /\ \E text \in NormalizerTexts :
        /\ ocr_text' = text
        /\ ocr_result' = normalize_plate_text(text)
    /\ ocr_op' = "normalize"
    /\ UNCHANGED <<ocr_candidates, ocr_conf>>
    /\ UNCHANGED other_than_ocr

\* _normalize_plate_text applied to a text it returned
NormalizeAgain ==
    /\ ocr_op = "normalize"
    /\ ocr_text' = ocr_result
    /\ ocr_result' = normalize_plate_text(ocr_result)
    /\ ocr_op' = "renormalize"
    /\ UNCHANGED <<ocr_candidates, ocr_conf>>
    /\ UNCHANGED other_than_ocr

\* _paddle_ocr(image), result[0] being the candidate list
PaddleOcr ==
    /\ ocr_op = "none"
    /\ \E lines \in CandidateLists :
        LET best == PaddleBest(lines, [text |-> <<>>, conf |-> 0])
        IN  /\ ocr_candidates' = lines
            /\ ocr_text' = best.text
            /\ ocr_result' = normalize_plate_text(best.text)
            /\ ocr_conf' = best.conf
    /\ ocr_op' = "paddle"
    /\ UNCHANGED other_than_ocr

\* _easyocr_fallback(image)
EasyocrFallback ==
    /\ ocr_op = "none"
    /\ \E results \in CandidateLists :
        /\ ocr_candidates' = results
        /\ IF results # <<>>
           THEN LET best_result == MaxByConf(results)
                IN  /\ ocr_text' = best_result.text
                    /\ ocr_result' = normalize_plate_text(best_result.text)
                    /\ ocr_conf' = best_result.conf
           ELSE /\ ocr_text' = NoText
                /\ ocr_result' = UNKNOWN
                /\ ocr_conf' = 0
    /\ ocr_op' = "easyocr"
    /\ UNCHANGED other_than_ocr

(***************************************************************************)
(* telangana_police.py: TelanganaPoliceScraper, the lookup cache           *)
(***************************************************************************)
MaxTicks == 3
MaxCalls == 3

CACHE_EXPIRY == 300
SECONDS_PER_DAY == 86400

\* timedelta.seconds: the seconds field of the normalized (days, seconds) pair
TimedeltaSeconds(elapsed) == elapsed % SECONDS_PER_DAY

\* re.sub(r'\s+', '', vehicle_number.upper()) on numbers without whitespace
normalize_vehicle_number(vehicle_number) == UpperCase(vehicle_number)

VehicleKey(vehicle_number) == <<"vehicle", vehicle_number>>
ChallanKey(challan_number) == <<"challan", challan_number>>

VehicleNumbers == {PlateStrings[1], PlateStrings[2]}
ChallanNumbers == {"TS20240101"}

CacheKeys ==
    {VehicleKey(normalize_vehicle_number(v)) : v \in VehicleNumbers}
    \cup {ChallanKey(c) : c \in ChallanNumbers}

\* time that passes between two lookups
Elapses == {1, 299, 300, 86401, 86700}

\* mutant: the whole age is compared, days included
is_cache_valid_total_seconds(key) ==
    IF cache[key] = None THEN FALSE
    ELSE now - cache[key].timestamp < CACHE_EXPIRY

is_cache_valid(key) ==
    IF cache[key] = None THEN FALSE
    ELSE TimedeltaSeconds(now - cache[key].timestamp) < CACHE_EXPIRY

\* the data a fetch returns is that of the moment of the fetch
FetchedData(key) == [key |-> key, fetched_at |-> now]

CacheInit ==
    /\ now = 0
    /\ ticks = 0
    /\ cache = [k \in CacheKeys |-> None]
    /\ calls = 0
    /\ call_key = None
    /\ call_age = None
    /\ call_ret = None

\* time passes
Tick ==
    /\ ticks < MaxTicks
    /\ \E d \in Elapses : now' = now + d
    /\ ticks' = ticks + 1
    /\ UNCHANGED <<cache, calls, call_key, call_age, call_ret>>
    /\ UNCHANGED other_than_cache

\* the part the two lookups share: serve the entry, or fetch and store
Lookup(key) ==
    /\ calls' = calls + 1
    /\ call_key' = key
    /\ call_age' = IF cache[key] = None THEN None
                   ELSE [seconds |-> now - cache[key].timestamp]
    /\ IF is_cache_valid(key)
       THEN /\ call_ret' = cache[key].data
            /\ UNCHANGED cache
       ELSE /\ call_ret' = FetchedData(key)
            /\ cache' = [cache EXCEPT ![key] = [data |-> FetchedData(key), timestamp |-> now]]
    /\ UNCHANGED <<now, ticks>>
    /\ UNCHANGED other_than_cache

SearchVehicleChallans ==
    /\ calls < MaxCalls
    /\ \E vehicle_number \in VehicleNumbers :
        Lookup(VehicleKey(normalize_vehicle_number(vehicle_number)))

SearchChallanByNumber ==
    /\ calls < MaxCalls
    /\ \E challan_number \in ChallanNumbers : Lookup(ChallanKey(challan_number))

(***************************************************************************)
(* app.py: confirm_qr_payment, verify_demo_payment, extract_demo_amount.   *)
(* Amounts are in hundredths of a rupee.                                   *)
(***************************************************************************)
MaxPayRequests == 3

MIN_TRANSACTION_ID_LEN == 8
LONG_TRANSACTION_ID_LEN == 12
AMOUNT_TOLERANCE == 1

Requests == {"r1", "r2"}
ViolationIds == {1, 2}
RequestedIds == {1, 2, 3}
PayerEmails == {"", " ", "rider@example.com"}

\* transaction IDs as typed, with their length and the demo patterns that
\* occur in transaction_id.upper()
TransactionIds ==
    {[text |-> "", len |-> 0, patterns |-> {}],
     [text |-> "UPI1", len |-> 4, patterns |-> {"UPI"}],
     [text |-> "UPI12345", len |-> 8, patterns |-> {"UPI", "123"}],
     [text |-> "half5678", len |-> 8, patterns |-> {"HALF"}],
     [text |-> "upi-less-1", len |-> 10, patterns |-> {"UPI", "LESS"}],
     [text |-> "DOUBLE99", len |-> 8, patterns |-> {"DOUBLE"}],
     [text |-> "ABCDEFGH", len |-> 8, patterns |-> {}],
     [text |-> "ABCDEFGHIJKL", len |-> 12, patterns |-> {}]}

underpay_patterns == {"LESS", "UNDER", "SMALL", "HALF"}
overpay_patterns == {"MORE", "OVER", "EXTRA", "DOUBLE"}
correct_patterns == {"UPI", "PAY", "CORRECT", "FULL", "EXACT"}
numeric_patterns == {"123", "456", "789"}

\* str.strip() on the e-mails considered
Strip(s) == IF s = " " THEN "" ELSE s

\* the simulated paid amount, -1 standing for None (payment not found)
extract_demo_amount(transaction_id, expected_amount) ==
    IF transaction_id.patterns \cap underpay_patterns # {} THEN (expected_amount * 5) \div 10
    ELSE IF transaction_id.patterns \cap overpay_patterns # {} THEN expected_amount * 2
    ELSE IF transaction_id.patterns \cap correct_patterns # {} THEN expected_amount
    ELSE IF transaction_id.patterns \cap numeric_patterns # {} THEN expected_amount
    ELSE IF transaction_id.len >= LONG_TRANSACTION_ID_LEN THEN expected_amount
    ELSE -1

\* SELECT id FROM violations WHERE transaction_id = ? AND id != ?
TransactionUsedElsewhere(rows, transaction_id, violation_id) ==
    \E id \in DOMAIN rows : id # violation_id /\ rows[id].transaction_id = transaction_id.text

AbsAmount(x) == IF x >= 0 THEN x ELSE 0 - x

Failure(error) == [success |-> FALSE, error |-> error]

\* mutant: the paid amount is not compared with the fine
verify_demo_payment_any_amount(rows, transaction_id, expected_amount, violation_id) ==
    IF transaction_id.len < MIN_TRANSACTION_ID_LEN THEN Failure("too short")
    ELSE IF TransactionUsedElsewhere(rows, transaction_id, violation_id)
    THEN Failure("already used")
    ELSE LET simulated_paid_amount == extract_demo_amount(transaction_id, expected_amount)
         IN  IF simulated_paid_amount = -1 THEN Failure("not found")
             ELSE [success |-> TRUE, paid_amount |-> simulated_paid_amount]

verify_demo_payment(rows, transaction_id, expected_amount, violation_id) ==
    IF transaction_id.len < MIN_TRANSACTION_ID_LEN THEN Failure("too short")
    ELSE IF TransactionUsedElsewhere(rows, transaction_id, violation_id)
    THEN Failure("already used")
    ELSE LET simulated_paid_amount == extract_demo_amount(transaction_id, expected_amount)
         IN  IF simulated_paid_amount = -1 THEN Failure("not found")
             ELSE IF AbsAmount(simulated_paid_amount - expected_amount) > AMOUNT_TOLERANCE
             THEN Failure("amount mismatch")
             ELSE [success |-> TRUE, paid_amount |-> simulated_paid_amount]

\* db.update_payment_status: in one transaction, marks an unpaid violation paid
\* unless the transaction ID is already recorded on another violation
update_payment_status(rows, violation_id, payer_email, transaction_id, paid_amount) ==
    IF rows[violation_id].paid \/ TransactionUsedElsewhere(rows, transaction_id, violation_id)
    THEN rows
    ELSE [rows EXCEPT ![violation_id] =
            [fine_amount |-> @.fine_amount, paid |-> TRUE,
             transaction_id |-> transaction_id.text, paid_amount |-> paid_amount,
             payer_email |-> payer_email]]

UnpaidRow(fine_amount) ==
    [fine_amount |-> fine_amount, paid |-> FALSE, transaction_id |-> "",
     paid_amount |-> 0, payer_email |-> ""]

PayInit ==
    /\ pay_rows = (1 :> UnpaidRow(FIRST_OFFENSE_FINE * 100)
                   @@ 2 :> UnpaidRow(REPEAT_OFFENSE_FINE * 100))
    /\ pay_req = [r \in Requests |-> [pc |-> "idle"]]
    /\ pay_count = 0

Rejected(error) == [pc |-> "rejected", error |-> error]

\* confirm_qr_payment up to the verification of the payment
ConfirmQrPaymentVerify ==
    /\ pay_count < MaxPayRequests
    /\ \E r \in Requests, violation_id \in RequestedIds, email \in PayerEmails,
          transaction_id \in TransactionIds :
        LET payer_email == Strip(email)
        IN  /\ pay_req[r].pc # "verified"
            /\ pay_req' = [pay_req EXCEPT ![r] =
                 IF payer_email = "" THEN Rejected("no email")
                 ELSE IF transaction_id.len = 0 THEN Rejected("no transaction id")
                 ELSE IF transaction_id.len < MIN_TRANSACTION_ID_LEN THEN Rejected("too short")
                 ELSE IF violation_id \notin DOMAIN pay_rows THEN Rejected("not found")
                 ELSE IF pay_rows[violation_id].paid THEN Rejected("already paid")
                 ELSE LET verification_result ==
                            verify_demo_payment(pay_rows, transaction_id,
                                                pay_rows[violation_id].fine_amount, violation_id)
                      IN  IF ~verification_result.success
                          THEN Rejected(verification_result.error)
                          ELSE [pc |-> "verified", violation_id |-> violation_id,
                                payer_email |-> payer_email, transaction_id |-> transaction_id,
                                verified_amount |-> verification_result.paid_amount]]
    /\ pay_count' = pay_count + 1
    /\ UNCHANGED pay_rows
    /\ UNCHANGED other_than_pay

\* confirm_qr_payment from db.update_payment_status to the redirect
ConfirmQrPaymentUpdate ==
    /\ \E r \in Requests :
        /\ pay_req[r].pc = "verified"
        /\ pay_rows' = update_payment_status(pay_rows, pay_req[r].violation_id,
                                            pay_req[r].payer_email, pay_req[r].transaction_id,
                                            pay_req[r].verified_amount)
        /\ pay_req' = [pay_req EXCEPT ![r] =
                         [pc |-> IF pay_rows' # pay_rows THEN "confirmed" ELSE "failed",
                          violation_id |-> @.violation_id]]
    /\ UNCHANGED pay_count
    /\ UNCHANGED other_than_pay

(***************************************************************************)
(* worker.py: ViolationWorker.process_video                                *)
(***************************************************************************)
MaxWorkerFrames == 3
MaxWorkerSkip == 2

\* the keys of the dict detect_violations returns, in insertion order
ResultKeys ==
    <<"violations", "counts", "bboxes", "scores", "plate_numbers", "is_vehicle_image",
      "annotated_image", "raw_result">>

\* "for detection in detections" over a dict yields its keys, which are strings
IterateResult(detections) == [i \in DOMAIN ResultKeys |-> [str |-> ResultKeys[i]]]

\* process_violation: detection['type'] of a string raises TypeError, which the
\* except clause turns into None; a dict with type, bbox and confidence whose
\* plate is read gives an entry
process_violation(detection, vehicle_no) ==
    IF "str" \in DOMAIN detection THEN None
    ELSE IF ~({"type", "bbox", "confidence"} \subseteq DOMAIN detection) THEN None
    ELSE IF vehicle_no = "UNKNOWN" THEN None
    ELSE [vehicle_no |-> vehicle_no, violation_type |-> detection.type,
          confidence |-> detection.confidence]

\* the plate the reader returns for the i-th process_violation call of a frame
PlateRead(plates, i) == IF i \in DOMAIN plates THEN plates[i] ELSE "MH01AB1234"

\* the entries appended to violations_found by the calls for items[i..]
RECURSIVE ProcessAll(_, _, _)
ProcessAll(items, plates, i) ==
    IF i > Len(items) THEN <<>>
    ELSE (IF process_violation(items[i], PlateRead(plates, i)) = None THEN <<>>
          ELSE <<process_violation(items[i], PlateRead(plates, i))>>)
         \o ProcessAll(items, plates, i + 1)

\* the violation lists of a frame, each with the plates the reader returns
WorkerFrames ==
    {[violations |-> <<>>, plates |-> <<>>],
     [violations |-> <<DirectViolation(BoxA, 30)>>, plates |-> <<"MH01AB1234">>],
     [violations |-> <<DirectViolation(BoxA, 30)>>, plates |-> <<"UNKNOWN">>],
     [violations |-> <<TripleRidingViolation(BoxA, 3), HelmetViolation(BoxD, BoxA)>>,
      plates |-> <<"MH01AB1234", "UNKNOWN">>]}

WkInit ==
    /\ wk_pc = "closed"
    /\ wk_frame_skip = 1
    /\ wk_frames = <<>>
    /\ wk_handed = <<>>
    /\ wk_violations_found = <<>>

\* process_video up to the loop, on a video that exists and opens
WorkerOpenVideo ==
    /\ wk_pc = "closed"
    /\ \E skip \in 1..MaxWorkerSkip : wk_frame_skip' = skip
    /\ wk_pc' = "reading"
    /\ UNCHANGED <<wk_frames, wk_handed, wk_violations_found>>
    /\ UNCHANGED other_than_wk

\* one iteration of the loop in which cap.read() returned a frame
WorkerReadFrame ==
    /\ wk_pc = "reading"
    /\ Len(wk_frames) < MaxWorkerFrames
    /\ \E frame \in WorkerFrames :
        LET frame_count == Len(wk_frames) + 1
            items == IterateResult(DetectionResult(frame.violations, <<>>))
        IN  /\ wk_frames' = Append(wk_frames, frame)
            /\ IF frame_count % wk_frame_skip = 0
               THEN /\ wk_handed' = wk_handed \o items
                    /\ wk_violations_found' =
                         wk_violations_found \o ProcessAll(items, frame.plates, 1)
               ELSE UNCHANGED <<wk_handed, wk_violations_found>>
    /\ UNCHANGED <<wk_pc, wk_frame_skip>>
    /\ UNCHANGED other_than_wk

\* cap.read() returned no frame: release and return violations_found
WorkerEndOfVideo ==
    /\ wk_pc = "reading"
    /\ wk_pc' = "done"
    /\ UNCHANGED <<wk_frame_skip, wk_frames, wk_handed, wk_violations_found>>
    /\ UNCHANGED other_than_wk

(***************************************************************************)
(* app.py: demo_detection on an image, process_demo_image                  *)
(***************************************************************************)
MaxUploads == 2

\* the plate built from the MD5 digest of the image shape:
\* state code, district 01..50, two letters, four digits
HashValues == {0, 1}
GeneratedPlate(hash_val) == IF hash_val = 0 THEN "AP01AA0000" ELSE "GJ50ZZ9999"

OcrPlateTexts == {"UNKNOWN", "MH01AB1234"}

UploadViolationLists == WebViolationLists \cup {<<>>}

\* mutant: an unread plate is kept
DemoPlateNumberKeepingUnknown(plate_text, demo_violation_types, hash_val) == plate_text

\* "Generate realistic plate if not detected but violations found"
DemoPlateNumber(plate_text, demo_violation_types, hash_val) ==
    IF plate_text = "UNKNOWN" /\ Len(demo_violation_types) > 0
    THEN GeneratedPlate(hash_val)
    ELSE plate_text

process_demo_image(is_vehicle_image, plate_text, demo_violation_types, hash_val) ==
    IF ~is_vehicle_image
    THEN [violations_found |-> FALSE, violations |-> <<>>, license_plate |-> "UNKNOWN",
          total_fine |-> 0, is_vehicle_image |-> FALSE]
    ELSE [violations_found |-> Len(demo_violation_types) > 0,
          violations |-> demo_violation_types,
          license_plate |-> DemoPlateNumber(plate_text, demo_violation_types, hash_val),
          total_fine |-> FlatTotalFine(demo_violation_types),
          is_vehicle_image |-> TRUE]

other_than_fine_and_web ==
    <<det_vars, vid_vars, est_vars, geo_vars, ai_vars, ocr_vars, cache_vars, pay_vars, wk_vars,
      run_vars>>

WebInit ==
    /\ web_count = 0
    /\ web_plate_text = ""
    /\ web_result = None

\* demo_detection for an image: process_demo_image, then create_demo_violation
\* if the image shows a vehicle and violations were found
DemoDetectionImage ==
    /\ web_count < MaxUploads
    /\ RoomForRecord
    /\ \E is_vehicle_image \in BOOLEAN, plate_text \in OcrPlateTexts,
          demo_violation_types \in UploadViolationLists, hash_val \in HashValues :
        LET detection_result ==
              process_demo_image(is_vehicle_image, plate_text, demo_violation_types, hash_val)
        IN  /\ web_plate_text' = plate_text
            /\ web_result' = detection_result
            /\ db_violations' =
                 IF detection_result.is_vehicle_image /\ detection_result.violations_found
                 THEN insert_violation(db_violations, detection_result.license_plate,
                                       CombinedViolation(detection_result.violations),
                                       FlatTotalFine(detection_result.violations))
                 ELSE db_violations
    /\ web_count' = web_count + 1
    /\ UNCHANGED <<w_pc, w_vehicle_no, w_violation_type, w_fine_amount,
                   seed_idx, seed_pc, seed_fine_amount>>
    /\ UNCHANGED other_than_fine_and_web

(***************************************************************************)
(* Two runs of detect.py's classification and video_processor.py's frame   *)
(* loop on one input.                                                      *)
(***************************************************************************)
MaxRunFrames == 3

RunModes == {"yolov8m", "custom_indonesian"}
RunFpsNums == {0, 5}

\* the detections of a frame, in result order
RunFrames ==
    {<<>>,
     <<Det("motorbike", BoxA, 80), Det("person", BoxD, 80), Det("person", BoxA, 80),
       Det("person", BoxD, 80)>>,
     <<Det("tanpahelm", BoxA, 30), Det("tanpahelm", BoxD, 95), Det("pengendara", BoxD, 80)>>}

\* the loop "for box in results.boxes" over the detections dets
RECURSIVE ExtractAll(_, _, _)
ExtractAll(mt, dets, acc) ==
    IF dets = <<>> THEN acc
    ELSE LET det == Head(dets)
             cls == MappedClass(mt, det.cls_name)
         IN  ExtractAll(mt, Tail(dets),
                [bboxes |-> IF cls = "" THEN acc.bboxes
                            ELSE [acc.bboxes EXCEPT ![cls] = Append(@, det.bbox)],
                 direct_violations |->
                    IF IsDirectClass(mt, det.cls_name)
                    THEN Append(acc.direct_violations, DirectViolation(det.bbox, det.conf))
                    ELSE acc.direct_violations])

\* the violation list detect_violations returns for the detections dets
ClassifyFrame(mt, dets) ==
    LET e == ExtractAll(mt, dets, [bboxes |-> EmptyBboxes, direct_violations |-> <<>>])
    IN  FrameViolations(mt, e.direct_violations, e.bboxes[CLASS_BIKE],
                        e.bboxes[CLASS_PERSON], e.bboxes[CLASS_HELMET])

\* the frame loop of process_video from frame index idx on
RECURSIVE FrameLoop(_, _, _)
FrameLoop(input, idx, acc) ==
    IF idx >= Len(input.frames) THEN acc
    ELSE IF idx % input.frame_skip # 0 THEN FrameLoop(input, idx + 1, acc)
    ELSE LET frame_violations == ClassifyFrame(input.model_type, input.frames[idx + 1])
             result == DetectionResult(frame_violations, <<>>)
             f == IntTrunc(input.fps_num, FPS_DEN)
         IN  FrameLoop(input, idx + 1,
                [frame_lists |-> Append(acc.frame_lists, frame_violations),
                 frames_processed |-> acc.frames_processed + 1,
                 total_violations |-> acc.total_violations + Len(frame_violations),
                 violations_timeline |->
                    IF frame_violations # <<>>
                    THEN TimelineAppend(acc.violations_timeline, ViolationInfo(idx, f, result))
                    ELSE acc.violations_timeline])

\* the per-frame violation lists and the summary of one run
RunOutput(input) ==
    LET acc == FrameLoop(input, 0, [frame_lists |-> <<>>, frames_processed |-> 0,
                                    total_violations |-> 0, violations_timeline |-> <<>>])
    IN  [frame_lists |-> acc.frame_lists,
         summary |-> Summary(IntTrunc(input.fps_num, FPS_DEN), input.frame_skip,
                             acc.frames_processed, acc.total_violations,
                             acc.violations_timeline)]

RunInit ==
    /\ run_input = None
    /\ run_outputs = <<>>
    /\ run_clock = 0

\* a video, a detector mode and a stride are fixed for the runs
ChooseRunInput ==
    /\ run_input = None
    /\ \E mt \in RunModes, skip \in 1..MaxFrameSkip, fps_num \in RunFpsNums,
          frames \in SeqsUpTo(RunFrames, MaxRunFrames) :
        run_input' = [model_type |-> mt, frame_skip |-> skip, fps_num |-> fps_num,
                      frames |-> frames]
    /\ UNCHANGED <<run_outputs, run_clock>>
    /\ UNCHANGED other_than_run

\* time passes
RunClockTick ==
    /\ run_input # None
    /\ run_clock < Len(run_outputs) + 1
    /\ run_clock' = run_clock + 1
    /\ UNCHANGED <<run_input, run_outputs>>
    /\ UNCHANGED other_than_run

\* process_video on the input, frames classified by detect_violations
ProcessVideoRun ==
    /\ run_input # None
    /\ Len(run_outputs) < 2
    /\ run_outputs' = Append(run_outputs, RunOutput(run_input))
    /\ UNCHANGED <<run_input, run_clock>>
    /\ UNCHANGED other_than_run

Init == DetInit /\ FineInit /\ VidInit /\ EstInit /\ GeoInit /\ AiInit /\ OcrInit /\ CacheInit /\ PayInit /\ WkInit /\ WebInit /\ RunInit

NextDetect ==
    \/ \E det \in Detections : ExtractBox(det)
    \/ SpatialReasoning
    \/ \E vehicle_count \in 0..3 : FallbackDetection(vehicle_count)
    \/ NextFrame

SpecDetect == Init /\ [][NextDetect]_vars

\* the paths that persist a record: one worker, the seeding script, the web upload
NextFine ==
    \/ \E d \in WorkerDetections, plate \in WorkerPlates :
         ProcessViolationComputeFine("w1", d, plate)
    \/ ProcessViolationInsert("w1")
    \/ SeedComputeFine
    \/ SeedInsert
    \/ \E plate \in WebPlates, types \in WebViolationLists : CreateDemoViolation(plate, types)

SpecFine == Init /\ [][NextFine]_vars

\* two workers confirming violations concurrently
NextConfirm ==
    \/ \E w \in Workers, d \in WorkerDetections, plate \in WorkerPlates :
         ProcessViolationComputeFine(w, d, plate)
    \/ \E w \in Workers : ProcessViolationInsert(w)

SpecConfirm == Init /\ [][NextConfirm]_vars

NextVideo ==
    \/ \E exists \in BOOLEAN, opened \in BOOLEAN, fps_num \in 0..MaxFpsNum,
          skip \in 1..MaxFrameSkip : OpenVideo(exists, opened, fps_num, skip)
    \/ \E result \in FrameResults : ReadFrame(result)
    \/ EndOfStream
    \/ DecodeFailure

SpecVideo == Init /\ [][NextVideo]_vars

\* the web upload of a video: process_demo_video around process_video_file
NextDemoVideo ==
    \/ \E exists \in BOOLEAN, opened \in BOOLEAN, fps_num \in DemoFpsNums :
         OpenVideo(exists, opened, fps_num, DemoFrameSkip)
    \/ \E result \in DemoFrameResults : ReadFrame(result)
    \/ EndOfStream
    \/ DecodeFailure
    \/ ProcessDemoVideoResult

SpecDemoVideo == Init /\ [][NextDemoVideo]_vars

NextEstimate == \E timeline \in EstimateTimelines : EstimateFines(timeline)

SpecEstimate == Init /\ [][NextEstimate]_vars

NextGeometry ==
    \/ AssignRidersToBike
    \/ HasHelmetForPerson
    \/ HeadRegion
    \/ Iou

SpecGeometry == Init /\ [][NextGeometry]_vars

NextAi ==
    \/ AiDetectViolations
    \/ AiUnreadableImage

SpecAi == Init /\ [][NextAi]_vars

NextNormalize ==
    \/ NormalizePlateText
    \/ NormalizeAgain

SpecNormalize == Init /\ [][NextNormalize]_vars

NextOcr ==
    \/ PaddleOcr
    \/ EasyocrFallback

SpecOcr == Init /\ [][NextOcr]_vars

NextCache ==
    \/ Tick
    \/ SearchVehicleChallans
    \/ SearchChallanByNumber

SpecCache == Init /\ [][NextCache]_vars

NextPay ==
    \/ ConfirmQrPaymentVerify
    \/ ConfirmQrPaymentUpdate

SpecPay == Init /\ [][NextPay]_vars

NextWorker ==
    \/ WorkerOpenVideo
    \/ WorkerReadFrame
    \/ WorkerEndOfVideo

SpecWorker == Init /\ [][NextWorker]_vars

\* every path that persists a record
NextPersist ==
    \/ \E d \in WorkerDetections, plate \in WorkerPlates :
         ProcessViolationComputeFine("w1", d, plate)
    \/ ProcessViolationInsert("w1")
    \/ SeedComputeFine
    \/ SeedInsert
    \/ DemoDetectionImage

SpecPersist == Init /\ [][NextPersist]_vars

NextRuns ==
    \/ ChooseRunInput
    \/ RunClockTick
    \/ ProcessVideoRun

SpecRuns == Init /\ [][NextRuns]_vars

Next ==
    \/ NextDetect \/ NextFine \/ NextConfirm \/ NextVideo
    \/ NextDemoVideo \/ NextEstimate \/ NextGeometry
    \/ NextAi
    \/ NextNormalize \/ NextOcr
    \/ NextCache
    \/ NextPay
    \/ NextWorker
    \/ NextPersist
    \/ NextRuns

Spec == Init /\ [][Next]_vars

(***************************************************************************)
(* Properties of the classifier.                                           *)
(***************************************************************************)
persons == bboxes[CLASS_PERSON]
bikes == bboxes[CLASS_BIKE]
helmets == bboxes[CLASS_HELMET]

DetDone == det_pc = "done"
StandardMode == model_type \in {"yolov8m", "yolov8n"}
CustomMode == model_type = "custom_indonesian"

IsDirect(v) == "bbox" \in DOMAIN v
IsTriple(v) == v.type = "triple_riding"
IsSpatialHelmet(v) == "rider_bbox" \in DOMAIN v

RECURSIVE ConcatAll(_)
ConcatAll(ss) == IF ss = <<>> THEN <<>> ELSE Head(ss) \o ConcatAll(Tail(ss))

CenterInside(b, p) ==
    /\ 2 * b[1] <= p[1] + p[3] /\ p[1] + p[3] <= 2 * b[3]
    /\ 2 * b[2] <= p[2] + p[4] /\ p[2] + p[4] <= 2 * b[4]

RidersOf(b) == SelectSeq(persons, LAMBDA p : CenterInside(b, p))
HelmetlessRidersOf(b) ==
    SelectSeq(RidersOf(b), LAMBDA p : ~has_helmet_for_person(p, helmets))

TripleBlock(b) ==
    IF Len(RidersOf(b)) >= 3
    THEN <<[type |-> "triple_riding", bike_bbox |-> b, riders |-> Len(RidersOf(b)),
            confidence |-> 90]>>
    ELSE <<>>

HelmetBlock(b) ==
    IF CustomMode THEN <<>>
    ELSE [i \in 1..Len(HelmetlessRidersOf(b)) |->
            [type |-> "helmet_violation", rider_bbox |-> HelmetlessRidersOf(b)[i],
             bike_bbox |-> b, confidence |-> 85]]

\* C1 (as claimed): direct violations, then the TripleRiding violations of all
\* vehicles in vehicle order, then the HelmetViolations of all vehicles in
\* vehicle order and rider order.
C1_GroupedOrdering ==
    (DetDone /\ model_type # "none") =>
        violations = direct_violations
                     \o ConcatAll([k \in 1..Len(bikes) |-> TripleBlock(bikes[k])])
                     \o ConcatAll([k \in 1..Len(bikes) |-> HelmetBlock(bikes[k])])

\* C1 (amended): direct violations first, then one block per vehicle in
\* vehicle-detection order, each block being that vehicle's TripleRiding
\* violation (if any) followed by its HelmetViolations in rider order.
\* Without a model the fallback emits only box-less helmet violations, which are
\* of none of the three kinds.
C1_PerVehicleOrdering ==
    DetDone =>
        IF model_type # "none"
        THEN violations = direct_violations
                          \o ConcatAll([k \in 1..Len(bikes) |->
                                          TripleBlock(bikes[k]) \o HelmetBlock(bikes[k])])
        ELSE \A i \in DOMAIN violations :
                ~IsDirect(violations[i]) /\ ~IsTriple(violations[i])
                /\ ~IsSpatialHelmet(violations[i])

\* a HelmetViolation of an earlier vehicle precedes a TripleRiding of a later one
C1_Witness ==
    /\ DetDone
    /\ Len(bikes) >= 2
    /\ \E i, j \in DOMAIN violations :
        /\ i < j
        /\ IsSpatialHelmet(violations[i])
        /\ IsTriple(violations[j])
        /\ violations[i].bike_bbox = bikes[1]
        /\ violations[j].bike_bbox = bikes[2]
        /\ bikes[1] # bikes[2]

Multiplicity(s, x) == Cardinality({i \in DOMAIN s : s[i] = x})

\* C2: every vehicle detection gets exactly one TripleRiding violation when it
\* has at least 3 assigned riders and none otherwise; the violation carries the
\* vehicle's box, the rider count and confidence 0.90.
C2_TripleRidingPerVehicle ==
    DetDone =>
        /\ \A k \in DOMAIN bikes :
            LET b == bikes[k]
                n == Len(RidersOf(b))
                emitted == {i \in DOMAIN violations :
                              IsTriple(violations[i]) /\ violations[i].bike_bbox = b}
            IN  /\ Cardinality(emitted) = (IF n >= 3 THEN Multiplicity(bikes, b) ELSE 0)
                /\ \A i \in emitted : /\ violations[i].riders = n
                                      /\ violations[i].confidence = 90
        /\ \A i \in DOMAIN violations :
            IsTriple(violations[i]) => \E k \in DOMAIN bikes : bikes[k] = violations[i].bike_bbox

C2_Witness ==
    /\ DetDone
    /\ \E k \in DOMAIN bikes : Len(RidersOf(bikes[k])) >= 3
    /\ \E k \in DOMAIN bikes : Len(RidersOf(bikes[k])) \in 1..2
    /\ \E i \in DOMAIN violations : IsTriple(violations[i])

\* C3: in standard mode a HelmetViolation with confidence 0.85 is emitted for a
\* (vehicle, rider) pair iff the rider is assigned to the vehicle and has no
\* helmet; it carries both boxes; unassigned persons produce none.
C3_HelmetViolationIff ==
    (DetDone /\ StandardMode) =>
        /\ \A k \in DOMAIN bikes : \A m \in DOMAIN persons :
            LET b == bikes[k]
                p == persons[m]
                emitted == {i \in DOMAIN violations :
                              /\ IsSpatialHelmet(violations[i])
                              /\ violations[i].rider_bbox = p
                              /\ violations[i].bike_bbox = b}
            IN  /\ (emitted # {}) <=> (CenterInside(b, p) /\ ~has_helmet_for_person(p, helmets))
                /\ emitted # {} =>
                     Cardinality(emitted) = Multiplicity(bikes, b) * Multiplicity(persons, p)
        /\ \A i \in DOMAIN violations :
            IsSpatialHelmet(violations[i]) =>
                /\ violations[i].type = "helmet_violation"
                /\ violations[i].confidence = 85
                /\ \E k \in DOMAIN bikes : bikes[k] = violations[i].bike_bbox
                /\ \E m \in DOMAIN persons :
                    /\ persons[m] = violations[i].rider_bbox
                    /\ CenterInside(violations[i].bike_bbox, persons[m])
        /\ \A i \in DOMAIN violations : IsSpatialHelmet(violations[i]) \/ IsTriple(violations[i])

\* a vehicle with a helmeted rider and a helmetless rider, and a person on no vehicle
C3_Witness ==
    /\ DetDone /\ StandardMode
    /\ \E k \in DOMAIN bikes :
        /\ \E m \in DOMAIN persons : /\ CenterInside(bikes[k], persons[m])
                                     /\ has_helmet_for_person(persons[m], helmets)
        /\ \E m \in DOMAIN persons : /\ CenterInside(bikes[k], persons[m])
                                     /\ ~has_helmet_for_person(persons[m], helmets)
    /\ \E m \in DOMAIN persons :
        /\ \A k \in DOMAIN bikes : ~CenterInside(bikes[k], persons[m])
        /\ ~has_helmet_for_person(persons[m], helmets)
    /\ \E i \in DOMAIN violations : IsSpatialHelmet(violations[i])

\* C4: in custom mode the violation list is exactly the n direct violations, the
\* i-th with the i-th direct detection's box and detector confidence, and there
\* is no spatially derived HelmetViolation, whatever else the frame contains.
C4_DirectViolationsOnly ==
    /\ [](CustomMode =>
            /\ \A i \in DOMAIN direct_violations :
                /\ direct_violations[i].type = "helmet_violation"
                /\ \E det \in Detections :
                    /\ det.cls_name = "tanpahelm"
                    /\ det.bbox = direct_violations[i].bbox
                    /\ det.conf = direct_violations[i].confidence
            /\ DetDone =>
                /\ violations = direct_violations
                /\ \A i \in DOMAIN violations : ~IsSpatialHelmet(violations[i]))
    /\ [][(CustomMode /\ det_pc = "running" /\ det_pc' = "running") =>
            \/ direct_violations' = direct_violations
            \/ \E det \in Detections :
                /\ det.cls_name = "tanpahelm"
                /\ bboxes'[CLASS_PERSON] = Append(bboxes[CLASS_PERSON], det.bbox)
                /\ direct_violations' =
                     Append(direct_violations,
                            [type |-> "helmet_violation", bbox |-> det.bbox,
                             confidence |-> det.conf, detected_directly |-> TRUE])]_vars

\* two direct detections with different confidences, helmets and riders present
C4_Witness ==
    /\ DetDone /\ CustomMode
    /\ Len(direct_violations) = 2
    /\ direct_violations[1].confidence # direct_violations[2].confidence
    /\ Len(violations) = 2
    /\ helmets # <<>>
    /\ Len(persons) > 2

\* C5 (as claimed): in custom mode every direct-violation box is in the person
\* set, and a vehicle whose box contains the centres of at least 3 boxes of the
\* person set produces a TripleRiding violation.
C5_CustomModeTripleRiding ==
    (DetDone /\ CustomMode) =>
        /\ \A i \in DOMAIN direct_violations :
            \E m \in DOMAIN persons : persons[m] = direct_violations[i].bbox
        /\ \A k \in DOMAIN raw_bikes :
            Len(RidersOf(raw_bikes[k])) >= 3 =>
                \E i \in DOMAIN violations :
                    IsTriple(violations[i]) /\ violations[i].bike_bbox = raw_bikes[k]


(***************************************************************************)
(* Properties of the fine policy.                                          *)
(***************************************************************************)
RowsOf(vehicle_no) == {i \in DOMAIN db_violations : db_violations[i].vehicle_no = vehicle_no}

OffenseHistoryFine(i) ==
    IF \E j \in 1..(i - 1) : db_violations[j].vehicle_no = db_violations[i].vehicle_no
    THEN 1000 ELSE 500

\* C6 (as claimed): every persisted record carries the offense-history amount:
\* FIRST_OFFENSE when no record of the vehicle was persisted before it,
\* REPEAT_OFFENSE otherwise, on every path that persists a record.
C6_PersistedFineIsOffenseBased ==
    \A i \in DOMAIN db_violations : db_violations[i].fine_amount = OffenseHistoryFine(i)

FineVehicles == {"MH01AB1234", "KA05CD5678", "TN07EF9012", "DL03GH3456", "UNKNOWN"}
FineTypes == {"helmet_violation", "triple_riding", "NO_HELMET", "TRIPLE_RIDING", "other"}

\* C7: compute_fine returns FIRST_OFFENSE iff the vehicle has 0 prior records
\* and REPEAT_OFFENSE otherwise, for every type; a call leaves the history as it
\* is; once a vehicle has a record every later call returns REPEAT_OFFENSE.
C7_ComputeFine ==
    /\ [](\A v \in FineVehicles : \A t \in FineTypes :
            /\ (compute_fine(v, t, db_violations) = 500) <=> (RowsOf(v) = {})
            /\ (compute_fine(v, t, db_violations) = 1000) <=> (RowsOf(v) # {}))
    /\ [][/\ \A w \in Workers :
              (w_pc[w] = "idle" /\ w_pc'[w] = "computed") =>
                  /\ db_violations' = db_violations
                  /\ w_fine_amount'[w] = (IF RowsOf(w_vehicle_no'[w]) = {} THEN 500 ELSE 1000)
          /\ (seed_pc = "compute" /\ seed_pc' = "insert") =>
                  /\ db_violations' = db_violations
                  /\ seed_fine_amount' =
                       (IF RowsOf(demo_violations[seed_idx + 1].vehicle_no) = {}
                        THEN 500 ELSE 1000)
          /\ \A v \in FineVehicles : \A t \in FineTypes :
              RowsOf(v) # {} => compute_fine(v, t, db_violations') = 1000]_vars

\* a repeat offender was priced after a first offence of the same vehicle
C7_Witness ==
    /\ \E v \in FineVehicles : Cardinality(RowsOf(v)) >= 2
    /\ \E w \in Workers : w_pc[w] = "computed" /\ w_fine_amount[w] = 1000
    /\ seed_idx >= 1

\* C8 (as claimed): of the records of one vehicle confirmed concurrently by the
\* workers, at most one is priced FIRST_OFFENSE.
C8_AtMostOneFirstOffense ==
    \A v \in WorkerPlates :
        Cardinality({i \in RowsOf(v) : db_violations[i].fine_amount = 500}) <= 1

(***************************************************************************)
(* Properties of the video timeline.                                       *)
(***************************************************************************)
FracEq(a, b) == a.num * b.den = b.num * a.den
FracLess(a, b) == a.num * b.den < b.num * a.den

\* indexes of the decoded frames that are sampled and have violations
ViolationFrames ==
    {i \in 0..(Len(cap_frames) - 1) : i % frame_skip = 0 /\ cap_frames[i + 1] # <<>>}

TimelineHasExactlyTheViolationFrames ==
    /\ {violations_timeline[k].frame_number : k \in DOMAIN violations_timeline} = ViolationFrames
    /\ Len(violations_timeline) = Cardinality(ViolationFrames)
    /\ \A k \in DOMAIN violations_timeline :
        violations_timeline[k].violations = cap_frames[violations_timeline[k].frame_number + 1]

\* C9 (as claimed): the timeline has exactly one entry per sampled frame with a
\* non-empty violation list, and an entry's timestamp is frameIndex / fps of the
\* source when that fps is > 0 and frameIndex when it is 0.
C9_TimelineEntriesAndTimestamps ==
    vid_pc # "closed" =>
        /\ TimelineHasExactlyTheViolationFrames
        /\ \A k \in DOMAIN violations_timeline :
            LET e == violations_timeline[k]
            IN  IF cap_fps.num > 0
                THEN FracEq(e.timestamp_seconds,
                            [num |-> e.frame_number * cap_fps.den, den |-> cap_fps.num])
                ELSE FracEq(e.timestamp_seconds, [num |-> e.frame_number, den |-> 1])

\* C10: the timeline only grows by appending at its end, and its entries are in
\* strictly increasing frame index and strictly increasing timestamp order.
C10_TimelineAppendOnlyIncreasing ==
    /\ [](\A k \in DOMAIN violations_timeline : \A m \in DOMAIN violations_timeline :
            k < m =>
                /\ violations_timeline[k].frame_number < violations_timeline[m].frame_number
                /\ FracLess(violations_timeline[k].timestamp_seconds,
                            violations_timeline[m].timestamp_seconds))
    /\ [][vid_pc # "closed" =>
            /\ Len(violations_timeline') >= Len(violations_timeline)
            /\ Len(violations_timeline') <= Len(violations_timeline) + 1
            /\ SubSeq(violations_timeline', 1, Len(violations_timeline)) = violations_timeline]_vars

C10_Witness ==
    /\ vid_pc = "done"
    /\ Len(violations_timeline) >= 3
    /\ fps = 0
    /\ frame_skip > 1

(***************************************************************************)
(* Properties of the fine estimates.                                       *)
(***************************************************************************)
ClaimedFlatAmount(t) ==
    CASE t = "helmet_violation" -> 500
      [] t = "triple_riding" -> 1000
      [] OTHER -> 500

RECURSIVE ClaimedFlatTotal(_)
ClaimedFlatTotal(vs) ==
    IF vs = <<>> THEN 0 ELSE ClaimedFlatAmount(Head(vs).type) + ClaimedFlatTotal(Tail(vs))

EstimatedViolations ==
    ConcatAll([k \in 1..Len(est_timeline) |-> est_timeline[k].violations])

\* the two totals agree with the table when every violation is of a type the
\* detector emits
TotalsAgreeOnDetectorTypes ==
    (/\ est_pc = "done"
     /\ \A i \in DOMAIN EstimatedViolations :
            EstimatedViolations[i].type \in {"helmet_violation", "triple_riding"})
        => /\ web_total_fine = ClaimedFlatTotal(EstimatedViolations)
           /\ pdf_total_fine = web_total_fine

\* C11 (as claimed): the total fine of a video run is the sum over every
\* violation of every timeline entry of 500 for a helmet violation, 1000 for
\* triple riding and 500 for any other type, and the PDF estimate of the same
\* violations is the same total.
C11_FlatTypeTotals ==
    est_pc = "done" =>
        /\ web_total_fine = ClaimedFlatTotal(EstimatedViolations)
        /\ pdf_total_fine = web_total_fine

(***************************************************************************)
(* Properties of the failures of a video run.                              *)
(***************************************************************************)
\* indexes of the decoded frames that are sampled
SampledFrames == {i \in 0..(Len(cap_frames) - 1) : i % frame_skip = 0}

\* number of violations in the sampled frames among the first k decoded frames
RECURSIVE ViolationsUpTo(_)
ViolationsUpTo(k) ==
    IF k = 0 THEN 0
    ELSE ViolationsUpTo(k - 1)
         + (IF (k - 1) % frame_skip = 0 THEN Len(cap_frames[k]) ELSE 0)

IsFlaggedPartial(s) == "partial" \in DOMAIN s /\ s.partial

\* C12: when a read fails after k decoded frames, process_video raises nothing
\* and returns a summary whose timeline, violation count and frames-analyzed
\* count are those of the first k frames; no frame is read afterwards.
C12_DecodeFailureReturnsAccumulated ==
    /\ []((vid_pc = "done" /\ ~cap_exhausted) =>
            /\ vid_error = "none"
            /\ "results" \in DOMAIN summary
            /\ summary.results.violations_timeline = violations_timeline
            /\ TimelineHasExactlyTheViolationFrames
            /\ summary.results.total_violations = ViolationsUpTo(Len(cap_frames))
            /\ summary.processing_info.frames_analyzed = Cardinality(SampledFrames))
    /\ [][vid_pc = "done" =>
            /\ vid_pc' = "done"
            /\ cap_frames' = cap_frames
            /\ summary' = summary]_vars

C12_Witness ==
    /\ vid_pc = "done"
    /\ ~cap_exhausted
    /\ frame_skip > 1
    /\ Len(cap_frames) >= 3
    /\ Len(summary.results.violations_timeline) >= 2

\* C13 (as claimed): the summary returned after a decode failure is flagged as
\* partial, the summary of a run that reached the end of the source is not.
C13_PartialSummaryIsFlagged ==
    vid_pc = "done" => (IsFlaggedPartial(summary) <=> ~cap_exhausted)

\* C14: when the source does not exist or cannot be opened, process_video
\* raises at once: no frame is read, the detector is not invoked and no
\* summary is returned, then or later.
C14_SourceUnavailableFailsImmediately ==
    /\ []((vid_pc # "closed" /\ (~video_exists \/ ~cap_opened)) =>
            /\ vid_pc = "failed"
            /\ vid_error = (IF ~video_exists THEN "FileNotFoundError" ELSE "ValueError")
            /\ cap_frames = <<>>
            /\ frames_processed = 0
            /\ summary = None)
    /\ [][vid_pc = "failed" =>
            /\ vid_pc' = "failed"
            /\ cap_frames' = <<>>
            /\ frames_processed' = 0
            /\ summary' = None]_vars

C14_Witness ==
    /\ vid_pc = "failed"
    /\ video_exists
    /\ ~cap_opened
    /\ vid_error = "ValueError"

(***************************************************************************)
(* Properties of the plate list of a video result.                         *)
(***************************************************************************)
\* the plate strings of the timeline entries, in timeline order
RecognizedPlates ==
    ConcatAll([k \in 1..Len(demo_result.violations_timeline) |->
                 [i \in 1..Len(demo_result.violations_timeline[k].plate_numbers) |->
                    demo_result.violations_timeline[k].plate_numbers[i].number]])

FirstIndex(s, x) == CHOOSE i \in DOMAIN s : s[i] = x /\ \A j \in 1..(i - 1) : s[j] # x

\* C15: the plate list of a video result holds every plate string of the
\* timeline entries exactly once, in first-seen order, strings being the same
\* only when equal character for character, and holds no other string.
C15_PlateListIsFirstSeenDistinct ==
    "plate_numbers" \in DOMAIN demo_result =>
        LET all == demo_result.plate_numbers
        IN  /\ {all[i] : i \in DOMAIN all}
                 = {RecognizedPlates[j] : j \in DOMAIN RecognizedPlates}
            /\ \A i, j \in DOMAIN all : i < j =>
                /\ all[i] # all[j]
                /\ FirstIndex(RecognizedPlates, all[i]) < FirstIndex(RecognizedPlates, all[j])

\* a plate and its lower-case spelling are both listed, a repeated plate once
C15_Witness ==
    /\ "plate_numbers" \in DOMAIN demo_result
    /\ Len(demo_result.violations_timeline) >= 2
    /\ Len(demo_result.plate_numbers) = 3
    /\ Len(RecognizedPlates) > 3
    /\ demo_result.plate_numbers[1] = PlateStrings[3]
    /\ \E i, j \in DOMAIN demo_result.plate_numbers :
        /\ demo_result.plate_numbers[i] = PlateStrings[1]
        /\ demo_result.plate_numbers[j] = PlateStrings[2]

(***************************************************************************)
(* Properties of spatial_logic.py.                                         *)
(***************************************************************************)
\* the unit pixels a box covers
Cells(b) == (b[1]..(b[3] - 1)) \X (b[2]..(b[4] - 1))

AbsDiff(m, n) == IF m >= n THEN m - n ELSE n - m

\* C16: for every vehicle, the riders are exactly the persons whose centre lies
\* in the closed rectangle of the vehicle box, in input order; a person whose
\* centre lies in several vehicle boxes is a rider of each of them.
C16_AssignRidersByCentre ==
    geo_op = "assign_riders_to_bike" =>
        LET bike_bboxes == geo_args[1]
            person_bboxes == geo_args[2]
        IN  /\ Len(geo_result) = Len(bike_bboxes)
            /\ \A k \in DOMAIN bike_bboxes :
                geo_result[k] =
                    SelectSeq(person_bboxes, LAMBDA p : CenterInside(bike_bboxes[k], p))

\* one person is a rider of two vehicles with its centre on an edge of one of
\* them, another person is a rider of neither
C16_Witness ==
    /\ geo_op = "assign_riders_to_bike"
    /\ Len(geo_args[1]) >= 2
    /\ Len(geo_args[2]) = 2
    /\ geo_result[1] = <<geo_args[2][2]>>
    /\ geo_result[2] = <<geo_args[2][2]>>
    /\ geo_args[2][2][1] + geo_args[2][2][3] = 2 * geo_args[1][2][1]

\* C17: has_helmet_for_person is true iff some helmet box shares at least one
\* pixel of area with the head region of the person; never for an empty list,
\* never for helmets that only touch the head region.
C17_HasHelmetIffPositiveOverlap ==
    geo_op = "has_helmet_for_person" =>
        LET head == head_region(geo_args[1])
            helmet_bboxes == geo_args[2]
        IN  /\ geo_result =
                (\E i \in DOMAIN helmet_bboxes : Cells(head) \cap Cells(helmet_bboxes[i]) # {})
            /\ helmet_bboxes = <<>> => geo_result = FALSE

\* a helmet whose top edge is the bottom edge of the head region, another whose
\* corner is a corner of the head region
C17_Witness ==
    /\ geo_op = "has_helmet_for_person"
    /\ geo_result = FALSE
    /\ Len(geo_args[2]) = 2
    /\ LET head == head_region(geo_args[1])
       IN  /\ head[2] < head[4]
           /\ geo_args[2][1][2] = head[4]
           /\ geo_args[2][1][1] = head[1]
           /\ geo_args[2][2][1] = head[3]
           /\ geo_args[2][2][2] = head[4]

\* the head region of a person at least 4 pixels tall is a box inside the person
HeadRegionOfTallPersons ==
    (geo_op = "head_region" /\ geo_args[1][4] - geo_args[1][2] >= 4) =>
        /\ geo_result[2] < geo_result[4]
        /\ geo_result[4] <= geo_args[1][4]

\* C18 (as claimed): the head region of a person box has the person's x1, x2
\* and y1, its bottom edge is y1 plus 30% of the height truncated, and that
\* bottom edge is above y1 and at most y2.
C18_HeadRegionIsBoundingBox ==
    geo_op = "head_region" =>
        LET person_bbox == geo_args[1]
            h == person_bbox[4] - person_bbox[2]
        IN  /\ geo_result[1] = person_bbox[1]
            /\ geo_result[2] = person_bbox[2]
            /\ geo_result[3] = person_bbox[3]
            /\ geo_result[4] = person_bbox[2] + ((3 * h) \div 10)
            /\ geo_result[1] < geo_result[3]
            /\ geo_result[2] < geo_result[4]
            /\ geo_result[4] <= person_bbox[4]

\* C19: iou is within 1e-6 of intersection / union, is 0 exactly when the boxes
\* share no area, is positive otherwise, is never above 1, and is within 1e-6
\* of 1 for a box of positive area and itself.
C19_IouValue ==
    geo_op = "iou" =>
        LET a == geo_args[1]
            b == geo_args[2]
            I == Cardinality(Cells(a) \cap Cells(b))
            U == Cardinality(Cells(a) \cup Cells(b))
            v == geo_result
        IN  /\ v.den > 0
            /\ U > 0 => AbsDiff(I * v.den, v.num * U) <= (U * v.den) \div 1000000
            /\ (I = 0) <=> (v.num = 0)
            /\ I > 0 => FracPositive(v)
            /\ v.num <= v.den
            /\ (a = b /\ Cells(a) # {}) => v.den - v.num <= v.den \div 1000000

\* two different boxes that share a part of their areas
C19_Witness ==
    /\ geo_op = "iou"
    /\ geo_args[1] # geo_args[2]
    /\ Cells(geo_args[1]) \cap Cells(geo_args[2]) # {}
    /\ Cells(geo_args[1]) \ Cells(geo_args[2]) # {}
    /\ Cells(geo_args[2]) \ Cells(geo_args[1]) # {}

\* C20: iou(A, B) and iou(B, A) have the same intersection area, the same union
\* area and the same value.
C20_IouSymmetric ==
    geo_op = "iou" =>
        LET a == geo_args[1]
            b == geo_args[2]
        IN  /\ inter_area(a, b) = inter_area(b, a)
            /\ box_area(a) + box_area(b) - inter_area(a, b)
                 = box_area(b) + box_area(a) - inter_area(b, a)
            /\ geo_result = iou(b, a)

\* boxes of different areas, the first reaching further right than the second
C20_Witness ==
    /\ geo_op = "iou"
    /\ box_area(geo_args[1]) > box_area(geo_args[2])
    /\ geo_args[1][3] > geo_args[2][3]
    /\ geo_result.num > 0

(***************************************************************************)
(* Confidence and box provenance of the classifier's violations.           *)
(***************************************************************************)
InSeq(s, x) == \E i \in DOMAIN s : s[i] = x

\* C21: every violation of a classifier output has a confidence in [0,1]: 0.90
\* for TripleRiding, 0.85 for a spatial HelmetViolation, the detector's own
\* confidence for a direct violation; a TripleRiding box is one of the frame's
\* vehicle boxes, a spatial HelmetViolation's rider box is one of the frame's
\* person boxes with its centre inside the referenced vehicle box, and a direct
\* violation is one recorded from a direct-violation detection of the frame.
C21_ConfidenceAndBoxProvenance ==
    /\ [](DetDone =>
            \A i \in DOMAIN violations :
                LET v == violations[i]
                IN  /\ 0 <= v.confidence /\ v.confidence <= 100
                    /\ IsTriple(v) =>
                        /\ v.confidence = 90
                        /\ InSeq(bikes, v.bike_bbox)
                    /\ IsSpatialHelmet(v) =>
                        /\ v.confidence = 85
                        /\ InSeq(bikes, v.bike_bbox)
                        /\ InSeq(persons, v.rider_bbox)
                        /\ CenterInside(v.bike_bbox, v.rider_bbox)
                    /\ IsDirect(v) =>
                        /\ InSeq(direct_violations, v)
                        /\ InSeq(persons, v.bbox)
                    /\ DOMAIN v \cap {"bbox", "bike_bbox", "rider_bbox"} = {} =>
                        model_type = "none")
    /\ [][direct_violations' # direct_violations /\ det_pc = "running" =>
            \E det \in Detections :
                /\ IsDirectClass(model_type, det.cls_name)
                /\ direct_violations' =
                     Append(direct_violations,
                            [type |-> "helmet_violation", bbox |-> det.bbox,
                             confidence |-> det.conf, detected_directly |-> TRUE])
                /\ 0 <= det.conf /\ det.conf <= 100]_vars

\* a standard-mode frame with a TripleRiding violation and a spatial
\* HelmetViolation of a rider whose box differs from the vehicle's box
C21_Witness ==
    /\ DetDone /\ StandardMode
    /\ \E i \in DOMAIN violations : IsTriple(violations[i])
    /\ \E i \in DOMAIN violations :
        /\ IsSpatialHelmet(violations[i])
        /\ violations[i].rider_bbox # violations[i].bike_bbox

(***************************************************************************)
(* Aggregate detection confidence.                                         *)
(***************************************************************************)
RECURSIVE ConfidenceTotal(_, _)
ConfidenceTotal(s, n) == IF n = 0 THEN 0 ELSE s[n].confidence + ConfidenceTotal(s, n - 1)

\* what process_demo_image reads: detection_result.get('detection_confidence')
ReportedConfidence == DictGet(ai_result, "detection_confidence")

\* C22: the aggregate detection confidence of an image result is the arithmetic
\* mean of the confidences of all emitted violations when at least one was
\* emitted, and it is None if and only if no violation was emitted; it is never
\* 0 standing for "no violations".
C22_AggregateConfidenceIsMean ==
    ai_pc = "done" =>
        LET emitted == ai_result.violations
        IN  /\ (ReportedConfidence = None) <=> (emitted = <<>>)
            /\ emitted # <<>> =>
                /\ ReportedConfidence.den > 0
                /\ ReportedConfidence.num * Len(emitted)
                     = ConfidenceTotal(emitted, Len(emitted)) * ReportedConfidence.den
            /\ Len(emitted) = Len(ai_violations)
            /\ \A i \in DOMAIN emitted :
                emitted[i].confidence = ai_violations[i].confidence

\* three violations of different confidences, whose mean is none of the three
C22_Witness ==
    /\ ai_pc = "done"
    /\ Len(ai_result.violations) = 3
    /\ ai_result.violations[1].confidence # ai_result.violations[2].confidence
    /\ \A i \in 1..3 :
        ai_result.violations[i].confidence * ReportedConfidence.den # ReportedConfidence.num

(***************************************************************************)
(* The plate normalizer.                                                   *)
(***************************************************************************)
PlateAlphabet == {UpperLetters[i] : i \in DOMAIN UpperLetters} \cup Digits

\* the cleaned text of the claims: upper-cased, then every character outside
\* A-Z and 0-9 removed; a missing text has no characters
Cleaned(t) ==
    IF t = NoText THEN <<>>
    ELSE SelectSeq([i \in DOMAIN t |-> UpperChar(t[i])], LAMBDA c : c \in PlateAlphabet)

LettersAt(c, from, to) == \A i \in from..to : c[i] \in PlateAlphabet \ Digits
DigitsAt(c, from, to) == \A i \in from..to : c[i] \in Digits

\* two letters, two digits, one or two letters, four digits
PlateFormat(c) ==
    \/ Len(c) = 9 /\ LettersAt(c, 1, 2) /\ DigitsAt(c, 3, 4) /\ LettersAt(c, 5, 5)
       /\ DigitsAt(c, 6, 9)
    \/ Len(c) = 10 /\ LettersAt(c, 1, 2) /\ DigitsAt(c, 3, 4) /\ LettersAt(c, 5, 6)
       /\ DigitsAt(c, 7, 10)

C30_NormalizerIdempotentAndClosed ==
    /\ [](ocr_op \in {"normalize", "renormalize"} =>
            \A i \in DOMAIN ocr_result : ocr_result[i] \in PlateAlphabet)
    /\ [][ocr_op = "normalize" /\ ocr_op' = "renormalize" =>
            ocr_text' = ocr_result /\ ocr_result' = ocr_result]_vars

\* a text with lower-case letters and separators whose result, 5 to 7
\* characters long and not a plate, was normalized again
C30_Witness ==
    /\ ocr_op = "renormalize"
    /\ Len(ocr_result) \in 5..7
    /\ ocr_result # UNKNOWN
    /\ ocr_text = ocr_result

(***************************************************************************)
(* Candidate selection of the OCR readers.                                 *)
(***************************************************************************)
HighestConf(cs) == CHOOSE m \in {cs[i].conf : i \in DOMAIN cs} : \A i \in DOMAIN cs : cs[i].conf <= m

FirstHighest(cs) ==
    CHOOSE k \in DOMAIN cs :
        /\ cs[k].conf = HighestConf(cs)
        /\ \A i \in 1..(k - 1) : cs[i].conf < HighestConf(cs)

\* C24 (as claimed): for every non-empty candidate list, also one whose
\* candidates all have confidence 0, the text that is normalized is that of the
\* candidate with the highest confidence, the first of them among ties.
C24_FirstHighestCandidateIsNormalized ==
    (ocr_op \in {"paddle", "easyocr"} /\ ocr_candidates # <<>>) =>
        /\ ocr_text = ocr_candidates[FirstHighest(ocr_candidates)].text
        /\ ocr_result = normalize_plate_text(ocr_text)

(***************************************************************************)
(* Expiry of the challan lookup cache.                                     *)
(***************************************************************************)
\* C28 (as claimed): a lookup whose entry is 300 seconds old or older, however
\* old, does not return the cached value: it fetches again and replaces the
\* entry; a younger entry is served.
C28_ExpiredEntryIsRefetched ==
    [][calls' = calls + 1 /\ cache[call_key'] # None =>
        IF now - cache[call_key'].timestamp >= 300
        THEN /\ call_ret'.fetched_at = now
             /\ cache'[call_key'] = [data |-> call_ret', timestamp |-> now]
        ELSE /\ call_ret' = cache[call_key'].data
             /\ cache' = cache]_vars

WorkerSampled == {i \in DOMAIN wk_frames : i % wk_frame_skip = 0}

\* the violations of the sampled frames, in frame order
SampledViolations ==
    ConcatAll([i \in DOMAIN wk_frames |->
                 IF i \in WorkerSampled THEN wk_frames[i].violations ELSE <<>>])

\* the plates read for them
SampledPlates ==
    ConcatAll([i \in DOMAIN wk_frames |->
                 IF i \in WorkerSampled THEN wk_frames[i].plates ELSE <<>>])

\* C26 (as claimed): process_video hands each violation of the detector's
\* violation list of every sampled frame to process_violation exactly once, and
\* returns one processed entry for every such violation whose plate was read as
\* something other than "UNKNOWN"; so a video with such a violation yields a
\* non-empty result.
C26_EachViolationProcessedOnce ==
    wk_pc = "done" =>
        /\ wk_handed = SampledViolations
        /\ Len(wk_violations_found)
             = Cardinality({j \in DOMAIN SampledPlates : SampledPlates[j] # "UNKNOWN"})
        /\ (\E j \in DOMAIN SampledPlates : SampledPlates[j] # "UNKNOWN")
             => wk_violations_found # <<>>

(***************************************************************************)
(* Persisted vehicle numbers.                                              *)
(***************************************************************************)
\* C29: no violation record is ever persisted with the vehicle number
\* "UNKNOWN": the worker drops a violation whose plate reads "UNKNOWN" before
\* it computes a fine or inserts anything, and the web image path inserts a
\* record only when violations were found, after replacing an "UNKNOWN" plate
\* by a generated one.
C29_NoUnknownVehiclePersisted ==
    /\ [](/\ \A i \in DOMAIN db_violations : db_violations[i].vehicle_no # "UNKNOWN"
          /\ w_pc["w1"] = "computed" => w_vehicle_no["w1"] # "UNKNOWN")
    /\ [][web_count' # web_count =>
            IF web_result'.is_vehicle_image /\ web_result'.violations # <<>>
            THEN /\ Len(db_violations') = Len(db_violations) + 1
                 /\ db_violations'[Len(db_violations')].vehicle_no = web_result'.license_plate
                 /\ IF web_plate_text' = "UNKNOWN"
                    THEN web_result'.license_plate \in {GeneratedPlate(h) : h \in HashValues}
                    ELSE web_result'.license_plate = web_plate_text'
            ELSE db_violations' = db_violations]_vars

\* an image with violations whose plate was read as "UNKNOWN" was persisted
\* under a generated plate, beside a record of the worker
C29_Witness ==
    /\ web_count > 0
    /\ web_plate_text = "UNKNOWN"
    /\ web_result.violations_found
    /\ \E i \in DOMAIN db_violations :
        /\ db_violations[i].vehicle_no = web_result.license_plate
        /\ db_violations[i].vehicle_no \in {GeneratedPlate(h) : h \in HashValues}
    /\ \E i \in DOMAIN db_violations : db_violations[i].vehicle_no = "MH01AB1234"

====
